---- MODULE Spec2Model ----
(***************************************************************************)
(* Booking / job-card ledger of garage_agent.                              *)
(*                                                                         *)
(* The tables of garage_agent/db/models.py are sequences of records; the   *)
(* primary key of a row is its index (rows are never deleted by the        *)
(* services).  Every service call runs in a request-scoped session         *)
(* (db/session.py get_db): what a call has not committed when it raises    *)
(* is discarded when the session is closed.                                *)
(***************************************************************************)
EXTENDS Integers, Sequences, FiniteSets, TLC

VARIABLES customers, vehicles, bookings, job_cards, sid_seq, procs, last,
          conversation_store

vars == <<customers, vehicles, bookings, job_cards, sid_seq, procs, last,
          conversation_store>>
tables == <<customers, vehicles, bookings, job_cards>>

(* ---------------------------- bounds ---------------------------------- *)
MaxBookings == 2
MaxSlotBookings == 3
MaxSid == 1

\* Inputs of the requests.
Requests == {<<"+111", "oil_change">>}
Dates == {1, 2}
Times == {10}
Stamps == {5}
GarageIds == {1, 2}
Procs == {"w1", "w2"}
TechNames == {"raj"}
JobUpdates == {<<"None", "done", 40>>}
DeliveryStatuses == {"sent", "delivered"}

(* ------------------------- program constants -------------------------- *)
NULL == 0
NONE == "None"

ACTIVE_STATUSES == {"PENDING", "CONFIRMED", "IN_PROGRESS"}
MAX_SLOT_CAPACITY == 2
ALLOWED_STATUSES == {"PENDING", "CONFIRMED", "IN_PROGRESS", "COMPLETED", "CANCELLED"}

ALLOWED_TRANSITIONS(current) ==
    CASE current = "PENDING" -> {"CONFIRMED", "CANCELLED"}
      [] current = "CONFIRMED" -> {"IN_PROGRESS", "CANCELLED"}
      [] current = "IN_PROGRESS" -> {"COMPLETED"}
      [] current = "COMPLETED" -> {}
      [] current = "CANCELLED" -> {}
      [] OTHER -> {}

COMPLETED_BOOKING_SCORE == 10
CANCELLED_BOOKING_SCORE == -20
COMPLETED_JOBCARD_SCORE == 5

DEFAULT_SERVICE_INTERVAL_DAYS == 120

SERVICE_INTERVAL_DAYS(service_type) ==
    CASE service_type = "oil_change" -> 90
      [] service_type = "general_service" -> 180
      [] service_type = "full_service" -> 365
      [] OTHER -> DEFAULT_SERVICE_INTERVAL_DAYS

(* ------------------------------ helpers ------------------------------- *)
Min(S) == CHOOSE x \in S : \A y \in S : x <= y

\* bootstrap.get_default_garage: the garage with the lowest id.
get_default_garage == Min(GarageIds)

Customer(phone, g) == [garage_id |-> g, phone |-> phone, health_score |-> 0]

Vehicle(cid, g) == [customer_id |-> cid, garage_id |-> g, next_service_due_date |-> NULL]

Booking(vid, g, ty, d, t) ==
    [vehicle_id |-> vid, garage_id |-> g, service_type |-> ty,
     service_date |-> d, service_time |-> t, status |-> "PENDING",
     reminder_sent |-> FALSE, reminder_sent_at |-> NULL,
     reminder_message_sid |-> NULL, delivery_status |-> NONE,
     delivered_at |-> NULL]

JobCard(b, g, tech) ==
    [booking_id |-> b, garage_id |-> g, technician_name |-> tech,
     work_notes |-> NONE, total_cost |-> NULL, completed_at |-> NULL,
     status |-> "IN_PROGRESS"]

Idle == [pc |-> "idle", phone |-> "", service_type |-> "", d |-> NULL, t |-> NULL,
         new_customer |-> FALSE, booking_id |-> NULL, garage_id |-> NULL,
         seen_status |-> "", tech |-> NONE]

\* What a request answers: the operation, how it ended and, when it
\* succeeded, the id of the row it returns.
Result(op, id, res) ==
    [op |-> op, id |-> IF res = "OK" THEN id ELSE NULL, result |-> res]

\* Booking rows of garage g at slot (d, t) in an active status.
ActiveAt(g, d, t) ==
    {b \in DOMAIN bookings :
        /\ bookings[b].garage_id = g
        /\ bookings[b].service_date = d
        /\ bookings[b].service_time = t
        /\ bookings[b].status \in ACTIVE_STATUSES}

\* Variant: a slot counts as full only above the capacity.
check_slot_conflict_above(d, t) ==
    Cardinality(ActiveAt(get_default_garage, d, t)) > MAX_SLOT_CAPACITY

check_slot_conflict(d, t) ==
    Cardinality(ActiveAt(get_default_garage, d, t)) >= MAX_SLOT_CAPACITY

\* service_type.strip().lower(), on the service types the model feeds in
\* (all but one are lower case without surrounding blanks).
strip_lower(service_type) ==
    CASE service_type = "Oil_Change " -> "oil_change"
      [] OTHER -> service_type

\* Variant: the interval table is not consulted.
calculate_next_service_default_only(service_type, service_date) ==
    service_date + DEFAULT_SERVICE_INTERVAL_DAYS

calculate_next_service(service_type, service_date) ==
    service_date + SERVICE_INTERVAL_DAYS(strip_lower(service_type))

\* customer_health.update_customer_health: the three counts are SQL queries
\* over what has been flushed; the session is built with autoflush=False, so
\* they are taken over the rows as they were before the calling service's
\* pending attribute changes.
health_score_of(g, cid) ==
    LET ofCustomer(b) ==
            /\ bookings[b].garage_id = g
            /\ bookings[b].vehicle_id \in DOMAIN vehicles
            /\ vehicles[bookings[b].vehicle_id].garage_id = g
            /\ vehicles[bookings[b].vehicle_id].customer_id = cid
        completed_bookings ==
            Cardinality({b \in DOMAIN bookings :
                ofCustomer(b) /\ bookings[b].status = "COMPLETED"})
        cancelled_bookings ==
            Cardinality({b \in DOMAIN bookings :
                ofCustomer(b) /\ bookings[b].status = "CANCELLED"})
        completed_job_cards ==
            Cardinality({j \in DOMAIN job_cards :
                /\ job_cards[j].garage_id = g
                /\ job_cards[j].booking_id \in DOMAIN bookings
                /\ ofCustomer(job_cards[j].booking_id)
                /\ job_cards[j].status = "COMPLETED"})
    IN  completed_bookings * COMPLETED_BOOKING_SCORE
        + cancelled_bookings * CANCELLED_BOOKING_SCORE
        + completed_job_cards * COMPLETED_JOBCARD_SCORE

\* Variant: no unique constraint on job_cards.booking_id.
uq_job_cards_booking_id_absent(b) == FALSE

\* models.JobCard.booking_id, unique=True: an INSERT of a second job card
\* for booking b violates the constraint.
uq_job_cards_booking_id(b) ==
    \E j \in DOMAIN job_cards : job_cards[j].booking_id = b

\* Booking.job_card relationship (uselist=False): the booking's job card.
job_card_of(b) == {j \in DOMAIN job_cards : job_cards[j].booking_id = b}

(* ------------------- services/conversation_service.py ----------------- *)
ChatPhones == {"+111"}

\* conversation["data"]: a key that was never stored reads as None.
EmptyData ==
    [initial_message |-> NONE, service_type |-> NONE,
     service_date |-> NONE, service_time |-> NONE]

\* No entry for the phone in conversation_store.
NoConversation == [state |-> NONE, data |-> EmptyData]

(* --------------------------- initial state ---------------------------- *)
Init ==
    /\ customers = <<>>
    /\ vehicles = <<>>
    /\ bookings = <<>>
    /\ job_cards = <<>>
    /\ sid_seq = 0
    /\ procs = [p \in Procs |-> Idle]
    /\ last = Result("init", NULL, "")
    /\ conversation_store = [phone \in ChatPhones |-> NoConversation]

(* ------------------------ booking_service.py -------------------------- *)
\* The booking row selected by id within the garage, or none.
booking_in_garage(b, g) == b \in DOMAIN bookings /\ bookings[b].garage_id = g

\* update_customer_health(db, garage_id, customer_id) has three required
\* parameters: a call binds only if it passes all of them.
update_customer_health_binds(passed) ==
    {"db", "garage_id", "customer_id"} \subseteq passed

\* The customers table after update_customer_health(g, cid) has assigned
\* customer.health_score (committed by the caller).
update_customer_health(g, cid) ==
    [customers EXCEPT ![cid].health_score = health_score_of(g, cid)]

ClearReminder(row) ==
    [row EXCEPT !.reminder_sent = FALSE, !.reminder_sent_at = NULL,
                !.reminder_message_sid = NULL, !.delivery_status = NONE,
                !.delivered_at = NULL]

\* get_or_create_customer_by_phone: the customer rows of the default garage
\* with this phone.
customers_by_phone(phone) ==
    {c \in DOMAIN customers :
        customers[c].phone = phone /\ customers[c].garage_id = get_default_garage}

\* The rows create_booking commits: _get_or_create_vehicle_for_customer
\* (first vehicle by id, created when missing) and the PENDING booking; the
\* customer row that get_or_create_customer_by_phone flushed goes with them.
InsertBooking(phone, ty, d, t) ==
    LET g == get_default_garage
        existing == customers_by_phone(phone)
        cid == IF existing # {} THEN Min(existing) ELSE Len(customers) + 1
        owned == {v \in DOMAIN vehicles :
                        vehicles[v].customer_id = cid /\ vehicles[v].garage_id = g}
        vid == IF owned # {} THEN Min(owned) ELSE Len(vehicles) + 1
    IN  /\ customers' = IF existing # {} THEN customers
                        ELSE Append(customers, Customer(phone, g))
        /\ vehicles' = IF owned # {} THEN vehicles
                       ELSE Append(vehicles, Vehicle(cid, g))
        /\ bookings' = Append(bookings, Booking(vid, g, ty, d, t))

create_booking_result(phone, ty, d, t) ==
    IF check_slot_conflict(d, t) THEN "SLOT_CONFLICT" ELSE "OK"

\* routes/webhook.py 225-234 with create_booking, in one session.  A slot
\* conflict raises before anything is committed, which also drops a
\* customer row that was only flushed.
create_booking(phone, ty, d, t) ==
    /\ IF create_booking_result(phone, ty, d, t) = "OK"
       THEN InsertBooking(phone, ty, d, t)
       ELSE UNCHANGED <<customers, vehicles, bookings>>
    /\ UNCHANGED <<job_cards, sid_seq>>

update_booking_status_result(b, new_status) ==
    IF ~booking_in_garage(b, get_default_garage) THEN "BOOKING_NOT_FOUND"
    ELSE IF new_status \notin ALLOWED_TRANSITIONS(bookings[b].status) THEN "INVALID_STATUS"
    ELSE IF /\ new_status \in {"COMPLETED", "CANCELLED"}
            /\ ~update_customer_health_binds({"db", "customer_id"})
         \* lines 183-185 pass no garage_id: TypeError before db.commit()
         THEN "TypeError"
    ELSE "OK"

\* Variant: the status is assigned and committed before it is validated.
update_booking_status_unchecked(b, new_status) ==
    /\ UNCHANGED <<customers, vehicles, job_cards, sid_seq>>
    /\ IF update_booking_status_result(b, new_status) = "BOOKING_NOT_FOUND"
       THEN UNCHANGED bookings
       ELSE bookings' = [bookings EXCEPT ![b].status = new_status]

update_booking_status(b, new_status) ==
    /\ UNCHANGED <<job_cards, sid_seq>>
    /\ IF update_booking_status_result(b, new_status) # "OK"
       THEN UNCHANGED <<customers, vehicles, bookings>>
       ELSE LET g == get_default_garage
                vid == bookings[b].vehicle_id
                cid == vehicles[vid].customer_id
            IN  /\ bookings' = [bookings EXCEPT ![b].status = new_status]
                /\ vehicles' = IF new_status = "COMPLETED"
                               THEN [vehicles EXCEPT ![vid].next_service_due_date =
                                        calculate_next_service(bookings[b].service_type,
                                                               bookings[b].service_date)]
                               ELSE vehicles
                /\ customers' = IF new_status \in {"COMPLETED", "CANCELLED"}
                                THEN update_customer_health(g, cid)
                                ELSE customers

\* Variant: no check of the booking's status.
reschedule_booking_result_any_status(b, new_date, new_time) ==
    IF ~booking_in_garage(b, get_default_garage) THEN "BOOKING_NOT_FOUND"
    ELSE IF check_slot_conflict(new_date, new_time) THEN "SLOT_CONFLICT"
    ELSE "OK"

reschedule_booking_result(b, new_date, new_time) ==
    IF ~booking_in_garage(b, get_default_garage) THEN "BOOKING_NOT_FOUND"
    ELSE IF bookings[b].status \notin {"PENDING", "CONFIRMED"} THEN "INVALID_STATUS"
    ELSE IF check_slot_conflict(new_date, new_time) THEN "SLOT_CONFLICT"
    ELSE "OK"

\* Variant: the delivery fields are not reset.
reschedule_booking_keeps_delivery(b, new_date, new_time) ==
    /\ UNCHANGED <<customers, vehicles, job_cards, sid_seq>>
    /\ IF reschedule_booking_result(b, new_date, new_time) # "OK"
       THEN UNCHANGED bookings
       ELSE bookings' = [bookings EXCEPT ![b] =
                [@ EXCEPT !.service_date = new_date, !.service_time = new_time,
                          !.status = "PENDING", !.reminder_sent = FALSE,
                          !.reminder_sent_at = NULL, !.reminder_message_sid = NULL]]

reschedule_booking(b, new_date, new_time) ==
    /\ UNCHANGED <<customers, vehicles, job_cards, sid_seq>>
    /\ IF reschedule_booking_result(b, new_date, new_time) # "OK"
       THEN UNCHANGED bookings
       ELSE bookings' = [bookings EXCEPT ![b] =
                ClearReminder([@ EXCEPT !.service_date = new_date,
                                        !.service_time = new_time,
                                        !.status = "PENDING"])]

cancel_booking_result(b) ==
    IF ~booking_in_garage(b, get_default_garage) THEN "BOOKING_NOT_FOUND"
    ELSE IF bookings[b].status \notin {"PENDING", "CONFIRMED"} THEN "INVALID_STATUS"
    ELSE IF ~update_customer_health_binds({"db", "customer_id"})
         \* line 277 passes no garage_id: TypeError before db.commit()
         THEN "TypeError"
    ELSE "OK"

cancel_booking(b) ==
    /\ UNCHANGED <<vehicles, job_cards, sid_seq>>
    /\ IF cancel_booking_result(b) # "OK"
       THEN UNCHANGED <<customers, bookings>>
       ELSE /\ bookings' = [bookings EXCEPT ![b] =
                    ClearReminder([@ EXCEPT !.status = "CANCELLED"])]
            /\ customers' = update_customer_health(get_default_garage,
                                vehicles[bookings[b].vehicle_id].customer_id)

(* ------------------------ jobcard_service.py -------------------------- *)
create_job_card_result(g, b, tech) ==
    IF ~booking_in_garage(b, g) THEN "Booking not found."
    ELSE IF bookings[b].status \in {"CANCELLED", "COMPLETED"}
         THEN "Cannot create job card for this booking status."
    ELSE IF job_card_of(b) # {} THEN "Job card already exists for this booking."
    ELSE "OK"

\* Variant: the booking's status is left as it was.
create_job_card_keeps_status(g, b, tech) ==
    /\ UNCHANGED <<customers, vehicles, sid_seq, bookings>>
    /\ IF create_job_card_result(g, b, tech) # "OK"
       THEN UNCHANGED job_cards
       ELSE job_cards' = Append(job_cards, JobCard(b, g, tech))

create_job_card(g, b, tech) ==
    /\ UNCHANGED <<customers, vehicles, sid_seq>>
    /\ IF create_job_card_result(g, b, tech) # "OK"
       THEN UNCHANGED <<bookings, job_cards>>
       ELSE /\ job_cards' = Append(job_cards, JobCard(b, g, tech))
            /\ bookings' = [bookings EXCEPT ![b].status = "IN_PROGRESS"]

job_in_garage(j, g) == j \in DOMAIN job_cards /\ job_cards[j].garage_id = g

update_job_card_result(g, j) ==
    IF ~job_in_garage(j, g) THEN "Job card not found." ELSE "OK"

\* Variant: an input overwrites only when it is truthy.
update_job_card_truthy(g, j, technician_name, work_notes, total_cost) ==
    /\ UNCHANGED <<customers, vehicles, bookings, sid_seq>>
    /\ IF update_job_card_result(g, j) # "OK"
       THEN UNCHANGED job_cards
       ELSE job_cards' = [job_cards EXCEPT ![j] =
                [@ EXCEPT !.technician_name =
                                IF technician_name \notin {NONE, ""}
                                THEN technician_name ELSE @,
                          !.work_notes = IF work_notes \notin {NONE, ""}
                                         THEN work_notes ELSE @,
                          !.total_cost = IF total_cost # NULL THEN total_cost ELSE @]]

update_job_card(g, j, technician_name, work_notes, total_cost) ==
    /\ UNCHANGED <<customers, vehicles, bookings, sid_seq>>
    /\ IF update_job_card_result(g, j) # "OK"
       THEN UNCHANGED job_cards
       ELSE job_cards' = [job_cards EXCEPT ![j] =
                [@ EXCEPT !.technician_name =
                                IF technician_name # NONE THEN technician_name ELSE @,
                          !.work_notes = IF work_notes # NONE THEN work_notes ELSE @,
                          !.total_cost = IF total_cost # NULL THEN total_cost ELSE @]]

\* Variant: a completed job card can be completed again.
complete_job_card_result_again(g, j) ==
    IF ~job_in_garage(j, g) THEN "Job card not found."
    ELSE IF ~booking_in_garage(job_cards[j].booking_id, g) THEN "Booking not found."
    ELSE "OK"

complete_job_card_result(g, j) ==
    IF ~job_in_garage(j, g) THEN "Job card not found."
    ELSE IF job_cards[j].status = "COMPLETED" THEN "Job card already completed."
    ELSE IF ~booking_in_garage(job_cards[j].booking_id, g) THEN "Booking not found."
    ELSE "OK"

complete_job_card(g, j, now) ==
    /\ UNCHANGED sid_seq
    /\ IF complete_job_card_result(g, j) # "OK"
       THEN UNCHANGED tables
       ELSE LET b == job_cards[j].booking_id
                vid == bookings[b].vehicle_id
                cid == vehicles[vid].customer_id
            IN  /\ job_cards' = [job_cards EXCEPT ![j].status = "COMPLETED",
                                                  ![j].completed_at = now]
                /\ bookings' = [bookings EXCEPT ![b].status = "COMPLETED"]
                /\ vehicles' = [vehicles EXCEPT ![vid].next_service_due_date =
                                    calculate_next_service(bookings[b].service_type,
                                                           bookings[b].service_date)]
                /\ customers' = update_customer_health(g, cid)

(* ---------------- reminder sweep and delivery callback ---------------- *)
\* _send_daily_reminders: the bookings the sweep selects for garage g on
\* day today.
\* Variant: the sweep selects bookings of any status.
due_for_reminder_any_status(g, today) ==
    {b \in DOMAIN bookings :
        /\ bookings[b].garage_id = g
        /\ bookings[b].service_date = today
        /\ bookings[b].reminder_sent = FALSE}

due_for_reminder(g, today) ==
    {b \in DOMAIN bookings :
        /\ bookings[b].garage_id = g
        /\ bookings[b].service_date = today
        /\ bookings[b].status = "CONFIRMED"
        /\ bookings[b].reminder_sent = FALSE}

\* One sweep: sent is the set of selected bookings whose send succeeded;
\* each is committed on its own with the message sid the transport returned.
send_daily_reminders(g, today, sent, now) ==
    LET sid(b) == sid_seq + Cardinality({x \in sent : x <= b})
    IN  /\ sent \subseteq due_for_reminder(g, today)
        /\ sid_seq + Cardinality(sent) <= MaxSid
        /\ bookings' = [b \in DOMAIN bookings |->
                IF b \in sent
                THEN [bookings[b] EXCEPT !.reminder_sent = TRUE,
                                         !.reminder_sent_at = now,
                                         !.reminder_message_sid = sid(b)]
                ELSE bookings[b]]
        /\ sid_seq' = sid_seq + Cardinality(sent)
        /\ UNCHANGED <<customers, vehicles, job_cards>>

\* Variant: the callback is applied to every booking that had a reminder.
twilio_status_callback_all(MessageSid, MessageStatus, now) ==
    /\ UNCHANGED <<customers, vehicles, job_cards, sid_seq>>
    /\ bookings' = [b \in DOMAIN bookings |->
            IF bookings[b].reminder_message_sid = NULL THEN bookings[b]
            ELSE [bookings[b] EXCEPT !.delivery_status = MessageStatus,
                                     !.delivered_at = IF MessageStatus = "delivered"
                                                      THEN now ELSE @]]

\* routes/twilio_webhook.py twilio_status_callback.
twilio_status_callback(MessageSid, MessageStatus, now) ==
    LET hit == {b \in DOMAIN bookings : bookings[b].reminder_message_sid = MessageSid}
    IN  /\ UNCHANGED <<customers, vehicles, job_cards, sid_seq>>
        /\ IF hit = {}
           THEN UNCHANGED bookings
           ELSE bookings' = [bookings EXCEPT ![Min(hit)] =
                    [@ EXCEPT !.delivery_status = MessageStatus,
                              !.delivered_at = IF MessageStatus = "delivered"
                                               THEN now ELSE @]]

(* ------------------- sequential ledger specifications ----------------- *)
Ids(max) == 1..max

\* The request just served and how it ended.
Served(op, id, res) ==
    /\ last' = Result(op, id, res)
    /\ UNCHANGED <<procs, conversation_store>>

CreateBooking(max) ==
    \E r \in Requests, d \in Dates, t \in Times :
        /\ Len(bookings) < max \/ check_slot_conflict(d, t)
        /\ create_booking(r[1], r[2], d, t)
        /\ Served("create_booking", Len(bookings) + 1,
                  create_booking_result(r[1], r[2], d, t))

UpdateBookingStatus(max) ==
    \E b \in Ids(max), s \in ALLOWED_STATUSES :
        /\ update_booking_status(b, s)
        /\ Served("update_booking_status", b, update_booking_status_result(b, s))

RescheduleBooking(max) ==
    \E b \in Ids(max), d \in Dates, t \in Times :
        /\ reschedule_booking(b, d, t)
        /\ Served("reschedule_booking", b, reschedule_booking_result(b, d, t))

CancelBooking(max) ==
    \E b \in Ids(max) :
        /\ cancel_booking(b)
        /\ Served("cancel_booking", b, cancel_booking_result(b))

CreateJobCard(max) ==
    \E g \in GarageIds, b \in Ids(max), tech \in TechNames :
        /\ create_job_card(g, b, tech)
        /\ Served("create_job_card", Len(job_cards) + 1, create_job_card_result(g, b, tech))

UpdateJobCard(max) ==
    \E g \in GarageIds, j \in Ids(max), u \in JobUpdates :
        /\ update_job_card(g, j, u[1], u[2], u[3])
        /\ Served("update_job_card", j, update_job_card_result(g, j))

CompleteJobCard(max) ==
    \E g \in GarageIds, j \in Ids(max), now \in Stamps :
        /\ complete_job_card(g, j, now)
        /\ Served("complete_job_card", j, complete_job_card_result(g, j))

SendDailyReminders(max) ==
    \E g \in GarageIds, today \in Dates, sent \in SUBSET Ids(max), now \in Stamps :
        /\ send_daily_reminders(g, today, sent, now)
        /\ Served("send_daily_reminders", Cardinality(sent), "OK")

TwilioStatusCallback ==
    \E sid \in 1..MaxSid, st \in DeliveryStatuses, now \in Stamps :
        /\ twilio_status_callback(sid, st, now)
        /\ Served("twilio_status_callback", sid, "OK")

\* Bookings and job cards, one request at a time.
Next ==
    \/ CreateBooking(MaxBookings)
    \/ UpdateBookingStatus(MaxBookings)
    \/ RescheduleBooking(MaxBookings)
    \/ CancelBooking(MaxBookings)
    \/ CreateJobCard(MaxBookings)
    \/ UpdateJobCard(MaxBookings)
    \/ CompleteJobCard(MaxBookings)

Spec == Init /\ [][Next]_vars

\* Bookings, the reminder sweep and the delivery callback, one at a time.
NextRemind ==
    \/ CreateBooking(MaxBookings)
    \/ UpdateBookingStatus(MaxBookings)
    \/ RescheduleBooking(MaxBookings)
    \/ CancelBooking(MaxBookings)
    \/ SendDailyReminders(MaxBookings)
    \/ TwilioStatusCallback

SpecRemind == Init /\ [][NextRemind]_vars

\* Bookings and job cards, one request at a time, answers not recorded.
Unobserved == UNCHANGED <<procs, last, conversation_store>>

NextSlots ==
    \/ \E r \in Requests, d \in Dates, t \in Times :
            /\ Len(bookings) < MaxSlotBookings
            /\ create_booking(r[1], r[2], d, t) /\ Unobserved
    \/ \E b \in Ids(MaxSlotBookings), s \in ALLOWED_STATUSES :
            update_booking_status(b, s) /\ Unobserved
    \/ \E b \in Ids(MaxSlotBookings), d \in Dates, t \in Times :
            reschedule_booking(b, d, t) /\ Unobserved
    \/ \E b \in Ids(MaxSlotBookings) : cancel_booking(b) /\ Unobserved
    \/ \E b \in Ids(MaxSlotBookings), tech \in TechNames :
            create_job_card(get_default_garage, b, tech) /\ Unobserved
    \/ \E j \in Ids(MaxSlotBookings), now \in Stamps :
            complete_job_card(get_default_garage, j, now) /\ Unobserved

SpecSlots == Init /\ [][NextSlots]_vars

(* ----------------- overlapping requests (one per worker) -------------- *)
\* Each worker serves one request at a time in its own session.  Reads see
\* what is committed; a session's INSERTs and UPDATEs reach the database at
\* its db.commit().
InFlight(pc) == {p \in Procs : procs[p].pc = pc}

\* webhook.py 226 and create_booking 117-123: customer lookup and the
\* slot-conflict check.
create_booking_check(p, phone, ty, d, t) ==
    /\ procs[p].pc = "idle"
    /\ UNCHANGED <<customers, vehicles, bookings, job_cards, sid_seq, conversation_store>>
    /\ IF check_slot_conflict(d, t)
       THEN /\ last' = Result("create_booking", NULL, "SLOT_CONFLICT")
            /\ UNCHANGED procs
       ELSE /\ Len(bookings) + Cardinality(InFlight("insert_booking")) < MaxSlotBookings
            /\ procs' = [procs EXCEPT ![p] =
                    [Idle EXCEPT !.pc = "insert_booking", !.phone = phone,
                                 !.service_type = ty, !.d = d, !.t = t,
                                 !.new_customer = (customers_by_phone(phone) = {})]]
            /\ UNCHANGED last

\* create_booking 125-152: vehicle lookup, INSERT and commit.  A customer
\* row this session flushed collides with uq_customers_garage_phone when
\* another session has committed the same phone meanwhile.
create_booking_commit(p) ==
    /\ procs[p].pc = "insert_booking"
    /\ procs' = [procs EXCEPT ![p] = Idle]
    /\ UNCHANGED <<job_cards, sid_seq, conversation_store>>
    /\ IF procs[p].new_customer /\ customers_by_phone(procs[p].phone) # {}
       THEN /\ UNCHANGED <<customers, vehicles, bookings>>
            /\ last' = Result("create_booking", NULL, "IntegrityError")
       ELSE /\ InsertBooking(procs[p].phone, procs[p].service_type, procs[p].d, procs[p].t)
            /\ last' = Result("create_booking", Len(bookings) + 1, "OK")

\* create_job_card 22-37: the booking lookup and the three checks.
create_job_card_check(p, g, b, tech) ==
    /\ procs[p].pc = "idle"
    /\ UNCHANGED <<customers, vehicles, bookings, job_cards, sid_seq, conversation_store>>
    /\ IF create_job_card_result(g, b, tech) # "OK"
       THEN /\ last' = Result("create_job_card", NULL, create_job_card_result(g, b, tech))
            /\ UNCHANGED procs
       ELSE /\ procs' = [procs EXCEPT ![p] =
                    [Idle EXCEPT !.pc = "insert_job_card", !.booking_id = b,
                                 !.garage_id = g, !.tech = tech,
                                 !.seen_status = bookings[b].status]]
            /\ UNCHANGED last

\* create_job_card 39-50: INSERT of the job card, UPDATE of the booking's
\* status when the assignment changed what was loaded, commit.
create_job_card_commit(p) ==
    LET b == procs[p].booking_id
    IN  /\ procs[p].pc = "insert_job_card"
        /\ procs' = [procs EXCEPT ![p] = Idle]
        /\ UNCHANGED <<customers, vehicles, sid_seq, conversation_store>>
        /\ IF uq_job_cards_booking_id(b)
           THEN /\ UNCHANGED <<bookings, job_cards>>
                /\ last' = Result("create_job_card", NULL, "IntegrityError")
           ELSE /\ job_cards' = Append(job_cards,
                                       JobCard(b, procs[p].garage_id, procs[p].tech))
                /\ bookings' = IF procs[p].seen_status # "IN_PROGRESS"
                               THEN [bookings EXCEPT ![b].status = "IN_PROGRESS"]
                               ELSE bookings
                /\ last' = Result("create_job_card", Len(job_cards) + 1, "OK")

NextConc ==
    \/ \E p \in Procs, r \in Requests, d \in Dates, t \in Times :
            create_booking_check(p, r[1], r[2], d, t)
    \/ \E p \in Procs : create_booking_commit(p)
    \/ \E p \in Procs, b \in Ids(MaxSlotBookings), tech \in TechNames :
            create_job_card_check(p, get_default_garage, b, tech)
    \/ \E p \in Procs : create_job_card_commit(p)
    \/ \E j \in Ids(MaxSlotBookings), now \in Stamps :
            complete_job_card(get_default_garage, j, now) /\ Unobserved

SpecConc == Init /\ [][NextConc]_vars

(* ------------- tenant-carrying callers (ai/tools, routes) ------------- *)
\* The parameters of the booking_service functions; all are required and
\* none is garage_id.
booking_service_params(fn) ==
    CASE fn = "create_booking" ->
            {"db", "customer_id", "service_type", "service_date", "service_time"}
      [] fn = "check_slot_conflict" -> {"db", "service_date", "service_time"}
      [] fn = "update_booking_status" -> {"db", "booking_id", "new_status"}
      [] fn = "reschedule_booking" -> {"db", "booking_id", "new_date", "new_time"}
      [] fn = "cancel_booking" -> {"db", "booking_id"}

\* A keyword call binds when it passes exactly the function's parameters.
booking_service_binds(fn, passed) == passed = booking_service_params(fn)

\* booking_tools.tool_update_booking_status and routes/bookings.update_status:
\* the caller's garage is passed on as garage_id=.
tool_update_booking_status_result(T, b, new_status) ==
    IF ~booking_service_binds("update_booking_status",
                              {"db", "garage_id", "booking_id", "new_status"})
    THEN "TypeError"
    ELSE update_booking_status_result(b, new_status)

tool_update_booking_status(T, b, new_status) ==
    IF tool_update_booking_status_result(T, b, new_status) = "TypeError"
    THEN UNCHANGED <<customers, vehicles, bookings, job_cards, sid_seq>>
    ELSE update_booking_status(b, new_status)

tool_reschedule_booking_result(T, b, new_date, new_time) ==
    IF ~booking_service_binds("reschedule_booking",
                              {"db", "garage_id", "booking_id", "new_date", "new_time"})
    THEN "TypeError"
    ELSE reschedule_booking_result(b, new_date, new_time)

tool_reschedule_booking(T, b, new_date, new_time) ==
    IF tool_reschedule_booking_result(T, b, new_date, new_time) = "TypeError"
    THEN UNCHANGED <<customers, vehicles, bookings, job_cards, sid_seq>>
    ELSE reschedule_booking(b, new_date, new_time)

tool_cancel_booking_result(T, b) ==
    IF ~booking_service_binds("cancel_booking", {"db", "garage_id", "booking_id"})
    THEN "TypeError"
    ELSE cancel_booking_result(b)

tool_cancel_booking(T, b) ==
    IF tool_cancel_booking_result(T, b) = "TypeError"
    THEN UNCHANGED <<customers, vehicles, bookings, job_cards, sid_seq>>
    ELSE cancel_booking(b)

tool_check_slot_conflict_result(T, d, t) ==
    IF ~booking_service_binds("check_slot_conflict",
                              {"db", "garage_id", "service_date", "service_time"})
    THEN "TypeError"
    ELSE IF check_slot_conflict(d, t) THEN "True" ELSE "False"

\* jobcard_service.get_job_card_by_booking: the job card of the booking
\* within the garage, or NULL.
get_job_card_by_booking(g, b) ==
    LET found == {j \in DOMAIN job_cards :
                    job_cards[j].booking_id = b /\ job_cards[j].garage_id = g}
    IN  IF found = {} THEN NULL ELSE Min(found)

\* jobcard_service.list_active_job_cards.
list_active_job_cards(g) ==
    {j \in DOMAIN job_cards :
        job_cards[j].status = "IN_PROGRESS" /\ job_cards[j].garage_id = g}

ReadOnly == UNCHANGED <<customers, vehicles, bookings, job_cards, sid_seq>>

ToolUpdateBookingStatus(max) ==
    \E T \in GarageIds, b \in Ids(max), s \in ALLOWED_STATUSES :
        /\ tool_update_booking_status(T, b, s)
        /\ Served("update_booking_status", b, tool_update_booking_status_result(T, b, s))

ToolRescheduleBooking(max) ==
    \E T \in GarageIds, b \in Ids(max), d \in Dates, t \in Times :
        /\ tool_reschedule_booking(T, b, d, t)
        /\ Served("reschedule_booking", b, tool_reschedule_booking_result(T, b, d, t))

ToolCancelBooking(max) ==
    \E T \in GarageIds, b \in Ids(max) :
        /\ tool_cancel_booking(T, b)
        /\ Served("cancel_booking", b, tool_cancel_booking_result(T, b))

ToolCheckSlotConflict ==
    \E T \in GarageIds, d \in Dates, t \in Times :
        /\ ReadOnly
        /\ Served("check_slot_conflict", NULL, tool_check_slot_conflict_result(T, d, t))

GetJobCardByBooking(max) ==
    \E g \in GarageIds, b \in Ids(max) :
        /\ ReadOnly
        /\ last' = [op |-> "get_job_card_by_booking",
                    id |-> get_job_card_by_booking(g, b), result |-> "OK"]
        /\ UNCHANGED <<procs, conversation_store>>

ListActiveJobCards ==
    \E g \in GarageIds :
        /\ ReadOnly
        /\ last' = [op |-> "list_active_job_cards",
                    id |-> Cardinality(list_active_job_cards(g)), result |-> "OK"]
        /\ UNCHANGED <<procs, conversation_store>>

\* Every ledger operation as its tenant-carrying callers invoke it.
NextTenant ==
    \/ CreateBooking(MaxBookings)
    \/ ToolUpdateBookingStatus(MaxBookings)
    \/ ToolRescheduleBooking(MaxBookings)
    \/ ToolCancelBooking(MaxBookings)
    \/ ToolCheckSlotConflict
    \/ CreateJobCard(MaxBookings)
    \/ UpdateJobCard(MaxBookings)
    \/ CompleteJobCard(MaxBookings)
    \/ GetJobCardByBooking(MaxBookings)
    \/ ListActiveJobCards

SpecTenant == Init /\ [][NextTenant]_vars

(* ------------------ bookings of several service types ----------------- *)
\* One type per row of the interval table (the first written as a customer
\* might type it) and one the table does not list.
ServiceTypes == {"Oil_Change ", "general_service", "full_service", "repair"}

NextService ==
    \/ \E ty \in ServiceTypes, d \in Dates, t \in Times :
            /\ Len(bookings) < MaxBookings
            /\ create_booking("+111", ty, d, t) /\ Unobserved
    \/ \E b \in Ids(MaxBookings), s \in ALLOWED_STATUSES :
            update_booking_status(b, s) /\ Unobserved
    \/ \E b \in Ids(MaxBookings), d \in Dates, t \in Times :
            reschedule_booking(b, d, t) /\ Unobserved
    \/ \E b \in Ids(MaxBookings) : cancel_booking(b) /\ Unobserved
    \/ \E b \in Ids(MaxBookings), tech \in TechNames :
            create_job_card(get_default_garage, b, tech) /\ Unobserved
    \/ \E j \in Ids(MaxBookings), now \in Stamps :
            complete_job_card(get_default_garage, j, now) /\ Unobserved

SpecService == Init /\ [][NextService]_vars

(* --------------------- routes/webhook.py conversation ------------------ *)
\* Message bodies the customer sends.
Messages == {"oil change", "tomorrow", "10am", "abc", "service 24/02", "oil change tomorrow"}

\* date.today() while the conversation runs.
Today == 1

\* The words of the extractor that occur in message.lower().
words_in(message) ==
    CASE message = "oil change" -> {"oil"}
      [] message = "tomorrow" -> {"tomorrow"}
      [] message = "service 24/02" -> {"service"}
      [] message = "oil change tomorrow" -> {"oil", "tomorrow"}
      [] OTHER -> {}

\* DATE_PATTERN.search(message).group(1), or None.
DATE_PATTERN_search(message) ==
    CASE message = "service 24/02" -> "24/02"
      [] OTHER -> NONE

\* services/extractor.py extract_booking_details.
extract_booking_details(message) ==
    [service_type |->
        IF "oil" \in words_in(message) THEN "oil_change"
        ELSE IF "service" \in words_in(message) THEN "service"
        ELSE IF "repair" \in words_in(message) THEN "repair"
        ELSE "general_service",
     service_date |->
        IF "today" \in words_in(message) THEN "today"
        ELSE IF "tomorrow" \in words_in(message) THEN "tomorrow"
        ELSE DATE_PATTERN_search(message)]

\* Variant: "tomorrow" is read as the current day.
parse_service_date_same_day(raw_date) ==
    CASE raw_date = "today" -> Today
      [] raw_date = "tomorrow" -> Today
      [] OTHER -> NULL

\* _parse_service_date: today, tomorrow, or one of the strptime formats
\* %Y-%m-%d, %d/%m/%Y, %d-%m-%Y, which none of the modelled strings has
\* ("24/02" carries no year).  NULL stands for None.
parse_service_date(raw_date) ==
    CASE raw_date = "today" -> Today
      [] raw_date = "tomorrow" -> Today + 1
      [] OTHER -> NULL

\* Variant: every reply is read as 10:00.
parse_service_time_any(raw_time) == 10

\* _parse_service_time: noon, midnight, or one of %H:%M, %H, %I:%M%p, %I%p;
\* "10am" is read by %I%p as 10:00.
parse_service_time(raw_time) ==
    CASE raw_time = "noon" -> 12
      [] raw_time = "10am" -> 10
      [] OTHER -> NULL

\* isinstance(state, str), on the stored values the model uses.
is_str(value) == value \notin {NONE, "int:5"}

\* Variant: the stored value is returned without the isinstance test.
get_state_unchecked(phone) == conversation_store[phone].state

\* conversation_service.get_state.
get_state(phone) ==
    IF is_str(conversation_store[phone].state)
    THEN conversation_store[phone].state ELSE NONE

\* conversation_service.get_data.
get_data(phone) == conversation_store[phone].data

\* The parameters of process() of the engine get_ai_engine() returns.
engine_process_params(engine) ==
    CASE engine = "rule" -> {"phone", "message"}
      [] engine = "llm" -> {"db", "garage_id", "phone", "message"}

\* webhook.py 121-132: ai_engine.process(db=db, phone=phone, message=...)
\* and the response built when the call raises.
ai_response(engine) ==
    IF {"db", "phone", "message"} = engine_process_params(engine)
    THEN [engine |-> engine, type |-> "engine_output", reply |-> NONE]
    ELSE [engine |-> engine, type |-> "conversation",
          reply |-> "Request processed. (AI error: TypeError)"]

\* Whether `except ValueError` (webhook.py 236) catches the DomainException
\* that create_booking raises on a slot conflict.
DomainException_is_ValueError == FALSE

\* The path receive_webhook takes.
webhook_branch(engine, phone, message) ==
    LET ai == ai_response(engine)
        state == get_state(phone)
        parsed_date == parse_service_date(get_data(phone).service_date)
        parsed_time == parse_service_time(message)
    IN  IF ai.engine = "llm" /\ ai.type = "conversation" THEN "llm_conversation"
        ELSE IF ai.engine = "llm" /\ ai.type = "tool_call" THEN "llm_tool_call"
        ELSE IF state = NONE
             THEN IF extract_booking_details(message).service_date = NONE
                  THEN "ask_date" ELSE "ask_time"
        ELSE IF state = "waiting_for_date" THEN "got_date"
        ELSE IF state = "waiting_for_time"
             THEN IF parsed_date = NULL THEN "bad_date"
                  ELSE IF parsed_time = NULL THEN "bad_time"
                  ELSE "finalize"
        ELSE "restart"

\* Variant: a reply at waiting_for_date is parsed at once and a date that
\* does not parse keeps the stage.
conversation_after_parses_date(engine, phone, message) ==
    LET conv == conversation_store[phone]
        br == webhook_branch(engine, phone, message)
        detected == extract_booking_details(message)
        first == [conv.data EXCEPT !.initial_message = message,
                                   !.service_type = detected.service_type]
    IN  CASE br \in {"llm_conversation", "llm_tool_call"} -> conv
          [] br = "ask_date" -> [state |-> "waiting_for_date", data |-> first]
          [] br = "ask_time" ->
                [state |-> "waiting_for_time",
                 data |-> [first EXCEPT !.service_date = detected.service_date]]
          [] br = "got_date" ->
                [state |-> IF parse_service_date(message) = NULL
                           THEN "waiting_for_date" ELSE "waiting_for_time",
                 data |-> [conv.data EXCEPT !.service_date = message]]
          [] br = "bad_date" ->
                [state |-> "waiting_for_date",
                 data |-> [conv.data EXCEPT !.service_time = message]]
          [] br = "bad_time" ->
                [state |-> "waiting_for_time",
                 data |-> [conv.data EXCEPT !.service_time = message]]
          [] br \in {"finalize", "restart"} -> NoConversation

\* The entry of conversation_store for the phone after the request.
conversation_after(engine, phone, message) ==
    LET conv == conversation_store[phone]
        br == webhook_branch(engine, phone, message)
        detected == extract_booking_details(message)
        first == [conv.data EXCEPT !.initial_message = message,
                                   !.service_type = detected.service_type]
    IN  CASE br \in {"llm_conversation", "llm_tool_call"} -> conv
          [] br = "ask_date" -> [state |-> "waiting_for_date", data |-> first]
          [] br = "ask_time" ->
                [state |-> "waiting_for_time",
                 data |-> [first EXCEPT !.service_date = detected.service_date]]
          [] br = "got_date" ->
                [state |-> "waiting_for_time",
                 data |-> [conv.data EXCEPT !.service_date = message]]
          [] br = "bad_date" ->
                [state |-> "waiting_for_date",
                 data |-> [conv.data EXCEPT !.service_time = message]]
          [] br = "bad_time" ->
                [state |-> "waiting_for_time",
                 data |-> [conv.data EXCEPT !.service_time = message]]
          [] br \in {"finalize", "restart"} -> NoConversation

\* The booking request of the finalize path (webhook.py 228-234).
NoRequest ==
    [emitted |-> FALSE, service_type |-> NONE, service_date |-> NULL, service_time |-> NULL]

booking_request(engine, phone, message) ==
    IF webhook_branch(engine, phone, message) # "finalize" THEN NoRequest
    ELSE [emitted |-> TRUE,
          service_type |-> IF get_data(phone).service_type # NONE
                           THEN get_data(phone).service_type ELSE "general_service",
          service_date |-> parse_service_date(get_data(phone).service_date),
          service_time |-> parse_service_time(message)]

\* How the request ends: "reply" with the TwiML body, or the exception that
\* leaves the handler.
webhook_outcome(engine, phone, message) ==
    LET req == booking_request(engine, phone, message)
    IN  IF /\ req.emitted
           /\ check_slot_conflict(req.service_date, req.service_time)
           /\ ~DomainException_is_ValueError
        THEN "DomainException"
        ELSE "reply"

webhook_reply(engine, phone, message) ==
    LET br == webhook_branch(engine, phone, message)
        req == booking_request(engine, phone, message)
    IN  CASE br = "llm_conversation" -> ai_response(engine).reply
          [] br = "llm_tool_call" -> "Tool executed"
          [] br = "ask_date" -> "Thanks. Please share your preferred service date."
          [] br = "ask_time" -> "Great. What time works for your service?"
          [] br = "got_date" -> "Got it. What time would you prefer?"
          [] br = "bad_date" ->
                "I could not understand the date. Please send like 24/02 or today."
          [] br = "bad_time" ->
                "I could not understand the time. Please send like 10:30 AM."
          [] br = "restart" -> "Let's start again. Please share your service request."
          [] br = "finalize" ->
                IF ~check_slot_conflict(req.service_date, req.service_time)
                THEN "Booking confirmed"
                ELSE IF DomainException_is_ValueError
                     THEN "Selected time slot is already booked."
                     ELSE ""

\* routes/webhook.py receive_webhook, one inbound message.
receive_webhook(engine, phone, message) ==
    LET req == booking_request(engine, phone, message)
    IN  /\ conversation_store' =
                [conversation_store EXCEPT ![phone] =
                    conversation_after(engine, phone, message)]
        /\ IF req.emitted
           THEN create_booking(phone, req.service_type, req.service_date, req.service_time)
           ELSE UNCHANGED <<customers, vehicles, bookings, job_cards, sid_seq>>
        /\ last' = [op |-> "receive_webhook",
                    id |-> IF req.emitted
                              /\ ~check_slot_conflict(req.service_date, req.service_time)
                           THEN Len(bookings) + 1 ELSE NULL,
                    result |-> webhook_outcome(engine, phone, message),
                    reply |-> webhook_reply(engine, phone, message),
                    branch |-> webhook_branch(engine, phone, message),
                    request |-> req]
        /\ UNCHANGED procs

\* The rule-based conversation, message by message.
NextChat ==
    \E phone \in ChatPhones, message \in Messages :
        receive_webhook("rule", phone, message)

SpecChat == Init /\ [][NextChat]_vars

\* The conversation from any stored entry: conversation["state"] is typed
\* Any, so besides the stages the handler writes the entry may hold another
\* string ("confirming") or a value that is not a string ("int:5").
StoredStages == {NONE, "waiting_for_date", "waiting_for_time", "confirming", "int:5"}

StoredData ==
    {EmptyData,
     [initial_message |-> "oil change", service_type |-> "oil_change",
      service_date |-> "tomorrow", service_time |-> NONE]}

InitStages ==
    /\ customers = <<>>
    /\ vehicles = <<>>
    /\ bookings = <<>>
    /\ job_cards = <<>>
    /\ sid_seq = 0
    /\ procs = [p \in Procs |-> Idle]
    /\ last = Result("init", NULL, "")
    /\ conversation_store \in [ChatPhones -> [state : StoredStages, data : StoredData]]

SpecStages == InitStages /\ [][NextChat]_vars

\* The conversation under either engine setting get_ai_engine() accepts;
\* the setting is read again for every request.
Engines == {"rule", "llm"}

NextReply ==
    \E engine \in Engines, phone \in ChatPhones, message \in Messages :
        receive_webhook(engine, phone, message)

SpecReply == Init /\ [][NextReply]_vars


(* ------------- ai/tools/registry.py and ai/llm_engine.py -------------- *)
\* A Python value: its type and its printed form.
Val(t, v) == [t |-> t, v |-> v]

PyNone == Val("NoneType", "None")

\* What a conversion returns when it raises TypeError or ValueError.
Raised == Val("raise", "ValueError")

\* An argument dict without keys.
NoArgs == [k \in {} |-> PyNone]

\* ToolRegistry._tools.
registered_tools ==
    {"create_booking", "reschedule_booking", "cancel_booking",
     "create_jobcard", "complete_jobcard", "get_daily_summary"}

\* ToolRegistry._tool_param_types.
tool_param_types(tool_name) ==
    CASE tool_name = "create_booking" ->
            [customer_id |-> "int", service_type |-> "str",
             service_date |-> "date", service_time |-> "time"]
      [] tool_name = "reschedule_booking" ->
            [booking_id |-> "int", new_date |-> "date", new_time |-> "time"]
      [] tool_name = "cancel_booking" -> [booking_id |-> "int"]
      [] tool_name = "create_jobcard" ->
            [booking_id |-> "int", technician_name |-> "str | None"]
      [] tool_name = "complete_jobcard" -> [jobcard_id |-> "int"]
      [] tool_name = "get_daily_summary" -> [target_date |-> "date | None"]
      [] OTHER -> NoArgs

\* inspect.signature of the tool functions: all parameters and the ones
\* without a default.
function_parameters(tool_name) ==
    CASE tool_name = "create_booking" ->
            [all |-> {"db", "garage_id", "customer_id", "service_type",
                      "service_date", "service_time"},
             required |-> {"db", "garage_id", "customer_id", "service_type",
                           "service_date", "service_time"}]
      [] tool_name = "reschedule_booking" ->
            [all |-> {"db", "garage_id", "booking_id", "new_date", "new_time"},
             required |-> {"db", "garage_id", "booking_id", "new_date", "new_time"}]
      [] tool_name = "cancel_booking" ->
            [all |-> {"db", "garage_id", "booking_id"},
             required |-> {"db", "garage_id", "booking_id"}]
      [] tool_name = "create_jobcard" ->
            [all |-> {"db", "garage_id", "booking_id", "technician_name"},
             required |-> {"db", "garage_id", "booking_id"}]
      [] tool_name = "complete_jobcard" ->
            [all |-> {"db", "garage_id", "jobcard_id"},
             required |-> {"db", "garage_id", "jobcard_id"}]
      [] tool_name = "get_daily_summary" ->
            [all |-> {"db", "target_date"}, required |-> {"db"}]

\* ToolRegistry.has_tool.
has_tool(tool_name) == tool_name \in registered_tools

\* ToolRegistry._normalize_annotation: Optional[X] is X.
normalize_annotation(annotation) ==
    CASE annotation = "str | None" -> "str"
      [] annotation = "date | None" -> "date"
      [] OTHER -> annotation

\* int(value) for a value that is not an int.
int_of(value) ==
    CASE value.t = "str" /\ value.v \in {"1", "2", "7"} -> Val("int", value.v)
      [] value.t = "float" /\ value.v = "1.5" -> Val("int", "1")
      [] OTHER -> Raised

\* date.fromisoformat(value) for a str.
date_fromisoformat(value) ==
    IF value.v \in {"2026-01-02"} THEN Val("date", value.v) ELSE Raised

\* time.fromisoformat(value) for a str.
time_fromisoformat(value) ==
    IF value.v \in {"10:30"} THEN Val("time", value.v) ELSE Raised

\* Variant: the raw value is passed as it came.
coerce_value_unchanged(value, annotation) == value

\* ToolRegistry._coerce_value: None stays None; a conversion that raises
\* is logged and the raw value is returned.
coerce_value(value, annotation) ==
    LET target_type == normalize_annotation(annotation)
        converted ==
            CASE target_type = "int" /\ value.t \notin {"int", "bool"} -> int_of(value)
              [] target_type = "str" /\ value.t # "str" -> Val("str", value.v)
              [] target_type = "date" /\ value.t = "str" -> date_fromisoformat(value)
              [] target_type = "time" /\ value.t = "str" -> time_fromisoformat(value)
              [] OTHER -> value
    IN  IF value = PyNone THEN PyNone
        ELSE IF converted = Raised THEN value
        ELSE converted

\* LLMEngine._parse_tool_arguments: a dict, None, or the JSON text of an
\* object; anything else raises ValueError.
parse_tool_arguments(raw_arguments) ==
    CASE raw_arguments.form \in {"dict", "json_object"} ->
            [raised |-> FALSE, value |-> raw_arguments.args]
      [] raw_arguments.form = "none" -> [raised |-> FALSE, value |-> NoArgs]
      [] OTHER -> [raised |-> TRUE, value |-> NoArgs]

\* ToolRegistry.sanitize_arguments.
sanitize_arguments(tool_name, arguments) ==
    LET expected_params == tool_param_types(tool_name)
        kept == DOMAIN arguments \cap DOMAIN expected_params
    IN  [key \in kept |-> coerce_value(arguments[key], expected_params[key])]

\* ToolRegistry.execute: the keyword arguments the tool function is called
\* with; db and garage_id are bound by the registry.
execute_kwargs(tool_name, garage_id, kwargs) ==
    LET params == function_parameters(tool_name).all
        keys == ({"db"} \cup ({"garage_id"} \cap params)
                        \cup {key \in DOMAIN kwargs : key \in params /\ key # "db"})
    IN  [key \in keys |->
            IF key = "db" THEN Val("Session", "db")
            ELSE IF key = "garage_id" THEN Val("int", "garage")
            ELSE kwargs[key]]

\* The row id a query compares with the argument: no row has an id that is
\* not an int.
row_id(value) ==
    CASE value = Val("int", "1") -> 1
      [] value = Val("int", "2") -> 2
      [] value = Val("int", "7") -> 7
      [] OTHER -> NULL

\* report_service.get_daily_summary(db, garage_id, target_date=None).
get_daily_summary_required == {"db", "garage_id"}

\* How tool_function(**execute_kwargs) ends: the call does not bind when a
\* parameter without default is missing; the booking and report tools then
\* call their service with a keyword set it does not take; the job-card
\* tools return the JobCard row or raise ValueError.
tool_call_result(tool_name, garage_id, kwargs) ==
    LET bound == execute_kwargs(tool_name, garage_id, kwargs)
    IN  IF ~(function_parameters(tool_name).required \subseteq DOMAIN bound)
        THEN "TypeError"
        ELSE CASE tool_name \in {"create_booking", "reschedule_booking", "cancel_booking"} ->
                    IF booking_service_binds(tool_name, function_parameters(tool_name).all)
                    THEN "Booking" ELSE "TypeError"
               [] tool_name = "get_daily_summary" ->
                    IF get_daily_summary_required \subseteq {"db", "target_date"}
                    THEN "dict" ELSE "TypeError"
               [] tool_name = "create_jobcard" ->
                    IF create_job_card_result(garage_id, row_id(bound.booking_id), NONE) = "OK"
                    THEN "JobCard" ELSE "ValueError"
               [] tool_name = "complete_jobcard" ->
                    IF complete_job_card_result(garage_id, row_id(bound.jobcard_id)) = "OK"
                    THEN "JobCard" ELSE "ValueError"

\* ToolRegistry.execute: ValueError for a name that is not registered,
\* otherwise the tool function is called.
registry_execute_result(tool_name, garage_id, kwargs) ==
    IF tool_name \notin registered_tools THEN "ValueError"
    ELSE tool_call_result(tool_name, garage_id, kwargs)

\* LLMEngine.execute_tool passes the call to the registry and its
\* exception on.
execute_tool_result(tool_name, args, garage_id) ==
    registry_execute_result(tool_name, garage_id, args)

\* LLMEngine._response_contract, on the replies the engine builds: an
\* empty reply becomes "Request processed."; outside a tool_call response
\* tool and arguments are None.
NoArguments == [present |-> FALSE, value |-> NoArgs]

response_contract(engine, response_type, reply, tool, arguments, result) ==
    LET normalized_type ==
            IF response_type \in {"conversation", "tool_call"}
            THEN response_type ELSE "conversation"
    IN  [engine |-> engine,
         type |-> normalized_type,
         reply |-> IF reply \in {"", NONE} THEN "Request processed." ELSE reply,
         tool |-> IF normalized_type = "tool_call" /\ tool # "" THEN tool ELSE NONE,
         arguments |-> IF normalized_type = "tool_call" THEN arguments ELSE NoArguments,
         result |-> result]

tool_execution_failure_reply == "I couldn't complete that request. Please try again."

\* What process hands back: the response, or the exception that leaves it.
Returned(response) == [raised |-> NONE, response |-> response]

\* RuleEngine.process(phone, message): the same metadata for every message.
rule_engine_process(message) ==
    [engine |-> "rule", intent |-> "booking_flow", confidence |-> "1.0"]

\* response.get(key, default).
dict_get(response, key, default) ==
    IF key \in DOMAIN response THEN response[key] ELSE default

\* LLMEngine._normalize_rule_response.
normalize_rule_response(response) ==
    response_contract("rule",
                      dict_get(response, "type", "conversation"),
                      dict_get(response, "reply", "Request processed."),
                      dict_get(response, "tool", NONE),
                      dict_get(response, "arguments", NoArguments),
                      dict_get(response, "result", NONE))

\* Variant: the exception of the rule engine is not caught.
fallback_to_rule_unguarded(message) ==
    [raised |-> "TypeError",
     response |-> response_contract("rule", "conversation", NONE, NONE, NoArguments, NONE)]

\* LLMEngine._fallback_to_rule: rule_engine.process is called with db=,
\* garage_id=, phone=, message=; when the call raises the failure reply is
\* returned, otherwise the rule response is normalised.
fallback_to_rule(message) ==
    IF {"db", "garage_id", "phone", "message"} = engine_process_params("rule")
    THEN Returned(normalize_rule_response(rule_engine_process(message)))
    ELSE Returned(response_contract("rule", "conversation",
                                    tool_execution_failure_reply, NONE, NoArguments, NONE))

tool_execution_failure_response ==
    Returned(response_contract("llm", "conversation", tool_execution_failure_reply,
                               NONE, NoArguments, NONE))

\* The tool call of LLMEngine.process (lines 118-226): the tool function
\* that is called, if any, with its keyword arguments and how the call ends.
NoCall == [called |-> NONE, kwargs |-> NoArgs, result |-> NONE]

process_call(garage_id, completion) ==
    LET tool_name == completion.name
        parsed == parse_tool_arguments(completion.arguments)
        arguments == sanitize_arguments(tool_name, parsed.value)
    IN  IF \/ completion.kind # "tool_call"
           \/ tool_name = NONE
           \/ ~has_tool(tool_name)
           \/ parsed.raised
        THEN NoCall
        ELSE IF tool_name \notin registered_tools
        THEN [called |-> NONE, kwargs |-> NoArgs, result |-> "ValueError"]
        ELSE [called |-> tool_name,
              kwargs |-> execute_kwargs(tool_name, garage_id, arguments),
              result |-> registry_execute_result(tool_name, garage_id, arguments)]

\* LLMEngine._extract_message_text(message_obj) or "Request processed.".
message_text(completion) ==
    IF completion.text = "" THEN "Request processed." ELSE completion.text

\* Variant: what the provider gave is handed back as it came.
process_result_unnormalized(garage_id, completion) ==
    [raised |-> NONE,
     response |-> [engine |-> "llm", type |-> completion.kind, reply |-> completion.text,
                   tool |-> completion.name,
                   arguments |-> [present |-> TRUE, value |-> completion.arguments.args],
                   result |-> NONE]]

\* LLMEngine.process: the value it returns for what the model call gave.
process_result(garage_id, completion) ==
    LET tool_name == completion.name
        parsed == parse_tool_arguments(completion.arguments)
        arguments == sanitize_arguments(tool_name, parsed.value)
        call == process_call(garage_id, completion)
    IN  CASE completion.kind = "empty_message" ->
                Returned(response_contract("llm", "conversation",
                    "Please provide more details so I can assist you.",
                    NONE, NoArguments, NONE))
          [] completion.kind \in {"client_unavailable", "api_error", "malformed"} ->
                fallback_to_rule(completion.message)
          [] completion.kind = "text" ->
                Returned(response_contract("llm", "conversation", message_text(completion),
                                           NONE, NoArguments, NONE))
          [] completion.kind = "tool_call" ->
                IF tool_name = NONE \/ ~has_tool(tool_name) \/ parsed.raised
                THEN fallback_to_rule(completion.message)
                ELSE IF call.result = "success dict"
                     \* lines 191-226; no registered tool returns such a dict
                     THEN Returned(response_contract("llm", "tool_call", "Request processed.",
                                        tool_name, [present |-> TRUE, value |-> arguments],
                                        "data"))
                ELSE \* an exception, a row that is not a dict, or a dict
                     \* without a true "success"
                     tool_execution_failure_response

\* LLMEngine.process as a request: the rows the called tool commits.
process(garage_id, completion, now) ==
    LET call == process_call(garage_id, completion)
        res == process_result(garage_id, completion)
    IN  /\ IF call.called = "create_jobcard" /\ call.result = "JobCard"
           THEN create_job_card(garage_id, row_id(call.kwargs.booking_id),
                                IF "technician_name" \in DOMAIN call.kwargs
                                   /\ call.kwargs.technician_name # PyNone
                                THEN call.kwargs.technician_name.v ELSE NONE)
           ELSE IF call.called = "complete_jobcard" /\ call.result = "JobCard"
           THEN complete_job_card(garage_id, row_id(call.kwargs.jobcard_id), now)
           ELSE UNCHANGED <<customers, vehicles, bookings, job_cards, sid_seq>>
        /\ last' = [op |-> "process", id |-> NULL,
                    garage_id |-> garage_id,
                    completion |-> completion,
                    result |-> IF res.raised = NONE THEN "returned" ELSE res.raised,
                    response |-> res.response,
                    called |-> call.called,
                    kwargs |-> call.kwargs,
                    call_result |-> call.result]
        /\ UNCHANGED <<procs, conversation_store>>

\* What the model call can give: no message, no client, an API error, a
\* malformed completion, plain text, or a tool call with a name (None when
\* missing) and raw arguments.
ArgKeys == {"booking_id", "new_date"}

RawValues(key) ==
    CASE key = "booking_id" ->
            {Val("str", "7"), Val("int", "1"), Val("str", "abc"), PyNone}
      [] key = "new_date" -> {Val("str", "2026-01-02"), Val("str", "tomorrow")}

\* Dicts over the declared keys, and dicts that also carry a key no tool
\* declares.
DeclaredDicts ==
    UNION {{args \in [keys -> UNION {RawValues(key) : key \in ArgKeys}] :
                \A key \in keys : args[key] \in RawValues(key)} :
           keys \in SUBSET ArgKeys}

ArgumentDicts ==
    DeclaredDicts
        \cup {[note |-> Val("str", "x")]}
        \cup {[booking_id |-> v, note |-> Val("str", "x")] : v \in RawValues("booking_id")}

RawArguments ==
    {[form |-> "dict", args |-> a] : a \in ArgumentDicts}
        \cup {[form |-> "json_object", args |-> [booking_id |-> Val("str", "7")]]}
        \cup {[form |-> f, args |-> NoArgs] : f \in {"none", "bad_json", "json_list"}}

ResolvedNames == registered_tools \cup {"delete_booking", NONE}

\* The messages of the requests that end in the rule strategy.
EngineMessages == {"daily summary", "cancel booking 7", "hello"}

Completions ==
    {[kind |-> "empty_message", message |-> "", name |-> NONE, text |-> "",
      arguments |-> [form |-> "none", args |-> NoArgs]]}
    \cup {[kind |-> k, message |-> m, name |-> NONE, text |-> "",
           arguments |-> [form |-> "none", args |-> NoArgs]] :
            k \in {"client_unavailable", "api_error", "malformed"}, m \in EngineMessages}
    \cup {[kind |-> "text", message |-> "hello", name |-> NONE, text |-> t,
           arguments |-> [form |-> "none", args |-> NoArgs]] : t \in {"", "Hello"}}
    \cup {[kind |-> "tool_call", message |-> "cancel booking 7", name |-> n, text |-> "",
           arguments |-> a] :
            n \in ResolvedNames, a \in RawArguments}

Process ==
    \E garage_id \in GarageIds, completion \in Completions, now \in Stamps :
        process(garage_id, completion, now)

\* Bookings for the tools to act on, all at one slot.
BookSlot ==
    \E r \in Requests :
        /\ Len(bookings) < MaxBookings \/ check_slot_conflict(Today + 1, 10)
        /\ create_booking(r[1], r[2], Today + 1, 10)
        /\ Served("create_booking", Len(bookings) + 1,
                  create_booking_result(r[1], r[2], Today + 1, 10))

NextDispatch ==
    \/ BookSlot
    \/ Process

SpecDispatch == Init /\ [][NextDispatch]_vars

(* ------------- the reminder job of the scheduler, step by step -------- *)
\* The thread of the BackgroundScheduler that runs the reminder job.
Scheduler == "w1"

\* Booking requests of a customer with a phone number and of one without.
SweepRequests == {<<"+111", "oil_change">>, <<"", "oil_change">>}

\* How the attempt on one booking can end: the customer has no phone,
\* send_whatsapp_message raises, db.commit() raises, or both succeed.
AttemptOutcomes == {"no_phone", "delivery_error", "commit_error", "sent"}

\* The job between two runs: d is the day of its latest run and failed the
\* bookings that run logged as failed.
NoSweep ==
    [pc |-> "idle", garage_id |-> NULL, d |-> NULL, selected |-> {},
     todo |-> {}, attempted |-> <<>>, sent |-> {}, failed |-> {}]

\* booking.vehicle.customer.phone
customer_phone(b) ==
    customers[vehicles[bookings[b].vehicle_id].customer_id].phone

\* Variant: the reminder of every attempt is recorded as sent.
reminder_row_always_sent(row, outcome, now, message_sid) ==
    [row EXCEPT !.reminder_sent = TRUE,
                !.reminder_sent_at = now,
                !.reminder_message_sid = message_sid]

\* The booking row after the attempt: written only when the message was
\* sent and the commit went through.
reminder_row(row, outcome, now, message_sid) ==
    IF outcome = "sent"
    THEN [row EXCEPT !.reminder_sent = TRUE,
                     !.reminder_sent_at = now,
                     !.reminder_message_sid = message_sid]
    ELSE row

\* Variant: a failed attempt ends the loop.
remaining_abort_on_failure(todo, b, outcome) ==
    IF outcome = "sent" THEN todo \ {b} ELSE {}

\* The bookings the loop still has to visit after the attempt on b.
remaining(todo, b, outcome) == todo \ {b}

\* The cron trigger fires the job once a day; the job reads date.today()
\* and runs the selection query.
select_reminders(p, g, today) ==
    /\ procs[p].pc = "idle"
    /\ today > procs[p].d
    /\ procs' = [procs EXCEPT ![p] =
            [pc |-> "sweep", garage_id |-> g, d |-> today,
             selected |-> due_for_reminder(g, today),
             todo |-> due_for_reminder(g, today),
             attempted |-> <<>>, sent |-> {}, failed |-> {}]]
    /\ UNCHANGED <<tables, sid_seq, last, conversation_store>>

\* One pass of the loop body, on booking b.
attempt_reminder(p, b, outcome, now) ==
    LET message_sid == sid_seq + 1
        transport_called == outcome \in {"commit_error", "sent"}
    IN  /\ procs[p].pc = "sweep"
        /\ b \in procs[p].todo
        /\ (outcome = "no_phone") <=> (customer_phone(b) = "")
        /\ transport_called => sid_seq < MaxSid
        /\ bookings' = [bookings EXCEPT ![b] =
                            reminder_row(@, outcome, now, message_sid)]
        /\ sid_seq' = IF transport_called THEN message_sid ELSE sid_seq
        /\ procs' = [procs EXCEPT ![p] =
                [@ EXCEPT !.todo = remaining(@, b, outcome),
                          !.attempted = Append(@, b),
                          !.sent = IF outcome = "sent" THEN @ \cup {b} ELSE @,
                          !.failed = IF outcome = "sent" THEN @ ELSE @ \cup {b}]]
        /\ UNCHANGED <<customers, vehicles, job_cards, last, conversation_store>>

\* The loop is over: the job logs its counts and closes the session.
finish_reminders(p) ==
    /\ procs[p].pc = "sweep"
    /\ procs[p].todo = {}
    /\ procs' = [procs EXCEPT ![p] =
            [NoSweep EXCEPT !.d = procs[p].d, !.garage_id = procs[p].garage_id,
                            !.failed = procs[p].failed]]
    /\ last' = [op |-> "send_daily_reminders", id |-> NULL, result |-> "OK",
                sent |-> Cardinality(procs[p].sent),
                failed |-> Cardinality(procs[p].failed),
                total_candidates |-> Cardinality(procs[p].selected)]
    /\ UNCHANGED <<tables, sid_seq, conversation_store>>

SelectReminders ==
    \E g \in GarageIds, today \in Dates : select_reminders(Scheduler, g, today)

AttemptReminder ==
    \E b \in Ids(MaxBookings), outcome \in AttemptOutcomes, now \in Stamps :
        attempt_reminder(Scheduler, b, outcome, now)

FinishReminders == finish_reminders(Scheduler)

\* No run of the job is under way.
BetweenSweeps == procs[Scheduler].pc = "idle"

CreateSweepBooking(requests) ==
    \E r \in requests, d \in Dates, t \in Times :
        /\ Len(bookings) < MaxBookings
        /\ create_booking(r[1], r[2], d, t)
        /\ Unobserved

UpdateSweepBooking ==
    \E b \in Ids(MaxBookings), st \in ALLOWED_STATUSES :
        update_booking_status(b, st) /\ Unobserved

RescheduleSweepBooking ==
    \E b \in Ids(MaxBookings), d \in Dates, t \in Times :
        reschedule_booking(b, d, t) /\ Unobserved

InitSweep ==
    /\ customers = <<>>
    /\ vehicles = <<>>
    /\ bookings = <<>>
    /\ job_cards = <<>>
    /\ sid_seq = 0
    /\ procs = [p \in Procs |-> IF p = Scheduler THEN NoSweep ELSE Idle]
    /\ last = Result("init", NULL, "")
    /\ conversation_store = [phone \in ChatPhones |-> NoConversation]

\* Runs of the reminder job, with booking requests served between them.
NextSweep ==
    \/ BetweenSweeps /\ CreateSweepBooking(SweepRequests)
    \/ BetweenSweeps /\ UpdateSweepBooking
    \/ BetweenSweeps /\ RescheduleSweepBooking
    \/ SelectReminders
    \/ AttemptReminder
    \/ FinishReminders

SpecSweep == InitSweep /\ [][NextSweep]_vars

\* The reminder job running while booking requests are served.
NextSweepRace ==
    \/ CreateSweepBooking(Requests)
    \/ UpdateSweepBooking
    \/ RescheduleSweepBooking
    \/ SelectReminders
    \/ AttemptReminder
    \/ FinishReminders

SpecSweepRace == InitSweep /\ [][NextSweepRace]_vars

(* ------------- webhook requests in flight on the event loop ----------- *)
\* Two customers, and the two messages of a complete booking chat.
WebhookPhones == {"+111", "+222"}
WebhookMessages == {"oil change tomorrow", "10am"}

\* A request whose form has been read: the coroutine holds From and Body.
FormRead(phone, message) == [pc |-> "form", phone |-> phone, message |-> message]

\* Variant: one context is kept for all phones.
store_after_shared(phone, entry) ==
    [q \in DOMAIN conversation_store |-> entry]

\* conversation_store after set_state, update_data or clear_state for the
\* phone: the dict is keyed by phone, only that key is written.
store_after(phone, entry) ==
    [conversation_store EXCEPT ![phone] = entry]

\* receive_webhook up to its only await: `form = await request.form()`.
\* The coroutine is suspended there and other requests may run.
webhook_await_form(p, phone, message) ==
    /\ procs[p].pc = "idle"
    /\ procs' = [procs EXCEPT ![p] = FormRead(phone, message)]
    /\ UNCHANGED <<tables, sid_seq, last, conversation_store>>

\* receive_webhook from the await to the return: the handler is `async def`
\* and calls only synchronous functions, so the event loop runs this part
\* without switching to another request.
webhook_resume(p) ==
    LET phone == procs[p].phone
        message == procs[p].message
        req == booking_request("rule", phone, message)
    IN  /\ procs[p].pc = "form"
        /\ procs' = [procs EXCEPT ![p] = Idle]
        /\ conversation_store' =
                store_after(phone, conversation_after("rule", phone, message))
        /\ IF req.emitted
           THEN create_booking(phone, req.service_type, req.service_date,
                               req.service_time)
           ELSE UNCHANGED <<customers, vehicles, bookings, job_cards, sid_seq>>
        /\ UNCHANGED last

InitWebhook ==
    /\ customers = <<>>
    /\ vehicles = <<>>
    /\ bookings = <<>>
    /\ job_cards = <<>>
    /\ sid_seq = 0
    /\ procs = [p \in Procs |-> Idle]
    /\ last = Result("init", NULL, "")
    /\ conversation_store = [phone \in WebhookPhones |-> NoConversation]

NextWebhook ==
    \/ \E p \in Procs, phone \in WebhookPhones, message \in WebhookMessages :
            webhook_await_form(p, phone, message)
    \/ \E p \in Procs : webhook_resume(p)

SpecWebhook == InitWebhook /\ [][NextWebhook]_vars

(* ---------------- reminders sent and their delivery reports ----------- *)
\* A later moment than the one the reminders are sent at.
ReportStamps == {6}

\* One pass of the reminder loop that ends in `sent += 1`, with the message
\* id the transport returns: Twilio issues a new SID for every message.
\* Variant: the pass reminds a booking of the day whatever its status.
reminder_sent_for_any_status(g, today, b, now) ==
    /\ b \in DOMAIN bookings
    /\ bookings[b].garage_id = g
    /\ bookings[b].service_date = today
    /\ bookings[b].reminder_sent = FALSE
    /\ sid_seq < MaxBookings
    /\ bookings' = [bookings EXCEPT ![b] = reminder_row(@, "sent", now, sid_seq + 1)]
    /\ sid_seq' = sid_seq + 1
    /\ UNCHANGED <<customers, vehicles, job_cards>>

reminder_sent_for(g, today, b, now) ==
    /\ b \in due_for_reminder(g, today)
    /\ sid_seq < MaxBookings
    /\ bookings' = [bookings EXCEPT ![b] = reminder_row(@, "sent", now, sid_seq + 1)]
    /\ sid_seq' = sid_seq + 1
    /\ UNCHANGED <<customers, vehicles, job_cards>>

BookForToday ==
    \E r \in Requests, t \in Times :
        /\ Len(bookings) < MaxBookings
        /\ create_booking(r[1], r[2], Today, t)
        /\ Unobserved

ReminderSent ==
    \E b \in Ids(MaxBookings), now \in Stamps :
        reminder_sent_for(get_default_garage, Today, b, now) /\ Unobserved

DeliveryReport ==
    \E sid \in 1..MaxBookings, st \in DeliveryStatuses, now \in ReportStamps :
        /\ twilio_status_callback(sid, st, now)
        /\ last' = [op |-> "twilio_status_callback", id |-> sid, result |-> "OK",
                    status |-> st, now |-> now]
        /\ UNCHANGED <<procs, conversation_store>>

\* Bookings of one day, their reminders and the delivery reports for them.
NextDelivery ==
    \/ BookForToday
    \/ UpdateSweepBooking
    \/ RescheduleSweepBooking
    \/ ReminderSent
    \/ DeliveryReport

SpecDelivery == Init /\ [][NextDelivery]_vars

(* ---------------------- job-card partial update ----------------------- *)
\* The optional inputs of update_job_card: technician_name, work_notes,
\* total_cost; NONE and NULL stand for an input that is None.
JobCardUpdates ==
    {<<NONE, NONE, NULL>>, <<"", NONE, NULL>>, <<NONE, "done", 40>>, <<"asha", NONE, NULL>>}

\* The update just served, with its inputs.
UpdateServed(g, j, u) ==
    [op |-> "update_job_card", id |-> IF update_job_card_result(g, j) = "OK" THEN j ELSE NULL,
     result |-> update_job_card_result(g, j), garage_id |-> g, job |-> j, input |-> u]

UpdateJobCardWith ==
    \E g \in GarageIds, j \in Ids(MaxBookings), u \in JobCardUpdates :
        /\ update_job_card(g, j, u[1], u[2], u[3])
        /\ last' = UpdateServed(g, j, u)
        /\ UNCHANGED <<procs, conversation_store>>

\* A request other than the update was served.
OtherServed ==
    /\ last' = Result("init", NULL, "")
    /\ UNCHANGED <<procs, conversation_store>>

NextJobCard ==
    \/ \E r \in Requests, t \in Times :
            /\ Len(bookings) < MaxBookings
            /\ create_booking(r[1], r[2], Today, t) /\ OtherServed
    \/ \E g \in GarageIds, b \in Ids(MaxBookings), tech \in TechNames :
            create_job_card(g, b, tech) /\ OtherServed
    \/ UpdateJobCardWith
    \/ \E g \in GarageIds, j \in Ids(MaxBookings), now \in Stamps :
            complete_job_card(g, j, now) /\ OtherServed

SpecJobCard == Init /\ [][NextJobCard]_vars

(* ------------ status update overlapping a job-card creation ----------- *)
\* A session that loaded the booking and assigned booking.status; the
\* UPDATE is sent at db.commit().
StatusWrite(b, new_status) ==
    [pc |-> "update_status", booking_id |-> b, new_status |-> new_status]

\* update_booking_status 160-180: the lookup, the transition check and the
\* assignment; a request that ends in an error writes nothing.
update_booking_status_check(p, b, new_status) ==
    /\ procs[p].pc = "idle"
    /\ UNCHANGED <<customers, vehicles, bookings, job_cards, sid_seq, conversation_store>>
    /\ IF update_booking_status_result(b, new_status) # "OK"
       THEN /\ last' = Result("update_booking_status", NULL,
                              update_booking_status_result(b, new_status))
            /\ UNCHANGED procs
       ELSE /\ procs' = [procs EXCEPT ![p] = StatusWrite(b, new_status)]
            /\ UNCHANGED last

\* update_booking_status 187-189: UPDATE bookings SET status WHERE id, and
\* commit; the row is not read again and carries no version column.
update_booking_status_commit(p) ==
    /\ procs[p].pc = "update_status"
    /\ procs' = [procs EXCEPT ![p] = Idle]
    /\ bookings' = [bookings EXCEPT ![procs[p].booking_id].status = procs[p].new_status]
    /\ last' = Result("update_booking_status", procs[p].booking_id, "OK")
    /\ UNCHANGED <<customers, vehicles, job_cards, sid_seq, conversation_store>>

NextJobRace ==
    \/ BookForToday
    \/ \E p \in Procs, b \in Ids(MaxBookings), s \in ALLOWED_STATUSES :
            update_booking_status_check(p, b, s)
    \/ \E p \in Procs : update_booking_status_commit(p)
    \/ \E p \in Procs, b \in Ids(MaxBookings), tech \in TechNames :
            create_job_card_check(p, get_default_garage, b, tech)
    \/ \E p \in Procs : create_job_card_commit(p)
    \/ \E j \in Ids(MaxBookings), now \in Stamps :
            complete_job_card(get_default_garage, j, now) /\ Unobserved
    \/ \E b \in Ids(MaxBookings), d \in Dates, t \in Times :
            reschedule_booking(b, d, t) /\ Unobserved

SpecJobRace == Init /\ [][NextJobRace]_vars

(* ------------- delivery reports for a released message id ------------- *)
\* The request just served on booking b; released is the message id the
\* booking held before a request that clears it, NULL otherwise.
Released(op, b, res, clears) ==
    [op |-> op, id |-> b, result |-> res,
     released |-> IF clears /\ b \in DOMAIN bookings
                  THEN bookings[b].reminder_message_sid ELSE NULL]

RescheduleRequest ==
    \E b \in Ids(MaxBookings), d \in Dates, t \in Times :
        /\ reschedule_booking(b, d, t)
        /\ last' = Released("reschedule_booking", b, reschedule_booking_result(b, d, t),
                            reschedule_booking_result(b, d, t) = "OK")
        /\ UNCHANGED <<procs, conversation_store>>

\* A cancel request is one that clears when the booking is of the garage
\* and PENDING or CONFIRMED (lines 256-266).
CancelRequest ==
    \E b \in Ids(MaxBookings) :
        /\ cancel_booking(b)
        /\ last' = Released("cancel_booking", b, cancel_booking_result(b),
                            cancel_booking_result(b) \notin {"BOOKING_NOT_FOUND", "INVALID_STATUS"})
        /\ UNCHANGED <<procs, conversation_store>>

NextStale ==
    \/ BookForToday
    \/ UpdateSweepBooking
    \/ ReminderSent
    \/ RescheduleRequest
    \/ CancelRequest
    \/ DeliveryReport

SpecStale == Init /\ [][NextStale]_vars

(* --------------- one message, several tool selections ----------------- *)
\* (message or "").strip() on the inbound texts.
strip(message) ==
    CASE message = "  " -> ""
      [] OTHER -> message

InboundMessages == {"", "  ", "job card for booking 1"}

\* The entries message_obj.tool_calls can hold.
ToolSelections ==
    {[name |-> "create_jobcard",
      arguments |-> [form |-> "dict", args |-> [booking_id |-> Val("int", v)]]] :
        v \in {"1", "2"}}
    \cup {[name |-> "complete_jobcard",
           arguments |-> [form |-> "dict", args |-> [jobcard_id |-> Val("int", v)]]] :
            v \in {"1", "2"}}
    \cup {[name |-> "cancel_booking",
           arguments |-> [form |-> "dict", args |-> [booking_id |-> Val("int", "1")]]]}

\* What chat.completions.create can give for a message: an exception, a
\* text, or a message with one or two tool calls.
ProviderAnswers ==
    {[kind |-> "api_error", text |-> "", tool_calls |-> <<>>],
     [kind |-> "text", text |-> "Hello", tool_calls |-> <<>>]}
    \cup {[kind |-> "tool_call", text |-> "", tool_calls |-> <<a>>] : a \in ToolSelections}
    \cup {[kind |-> "tool_call", text |-> "", tool_calls |-> <<a, b>>] :
            a \in ToolSelections, b \in ToolSelections}

\* Variant: the tool call acted on is the last of the list.
selected_tool_call_last(tool_calls) == tool_calls[Len(tool_calls)]

\* tool_call = tool_calls[0].
selected_tool_call(tool_calls) == tool_calls[1]

\* What process acts on: nothing of the provider for a message that is
\* empty after strip() (lines 61-69), otherwise the provider's answer with
\* the selected tool call (lines 117-121).
completion_for(message, answer) ==
    IF strip(message) = ""
    THEN [kind |-> "empty_message", message |-> "", name |-> NONE, text |-> "",
          arguments |-> [form |-> "none", args |-> NoArgs]]
    ELSE IF answer.tool_calls # <<>>
    THEN [kind |-> "tool_call", message |-> strip(message),
          name |-> selected_tool_call(answer.tool_calls).name, text |-> "",
          arguments |-> selected_tool_call(answer.tool_calls).arguments]
    ELSE [kind |-> answer.kind, message |-> strip(message), name |-> NONE,
          text |-> answer.text, arguments |-> [form |-> "none", args |-> NoArgs]]

\* What process can be given to act on, over the inbound messages and the
\* provider's answers.
SelectionCompletions ==
    {completion_for(message, answer) :
        message \in InboundMessages, answer \in ProviderAnswers}

ProcessMessage ==
    \E garage_id \in GarageIds, completion \in SelectionCompletions, now \in Stamps :
        process(garage_id, completion, now)

NextSelections ==
    \/ BookSlot
    \/ ProcessMessage

SpecSelections == Init /\ [][NextSelections]_vars

(* ------------------------------ properties ---------------------------- *)
ActiveCount(g, d, t) == Cardinality(ActiveAt(g, d, t))

Cleared(row) ==
    /\ row.reminder_sent = FALSE
    /\ row.reminder_sent_at = NULL
    /\ row.reminder_message_sid = NULL
    /\ row.delivery_status = NONE
    /\ row.delivered_at = NULL

\* C1: with the conflict check and the insert of overlapping create_booking
\* calls interleaved in any order, no slot ever holds more than
\* MAX_SLOT_CAPACITY active bookings.
C1_CapacityUnderOverlap ==
    \A d \in Dates, t \in Times :
        Cardinality({b \in DOMAIN bookings :
            /\ bookings[b].service_date = d /\ bookings[b].service_time = t
            /\ bookings[b].status \in ACTIVE_STATUSES}) <= MAX_SLOT_CAPACITY

\* Two overlapping calls both passed the conflict check of a slot that had
\* one place left, and both inserted.
C1_Witness ==
    /\ last.op = "create_booking"
    /\ last.result = "OK"
    /\ \E d \in Dates, t \in Times :
            ActiveCount(get_default_garage, d, t) = MAX_SLOT_CAPACITY + 1

\* C2: after any sequence of non-overlapping ledger operations, every
\* garage and slot holds at most MAX_SLOT_CAPACITY active bookings.
C2_SlotCapacity ==
    \A g \in GarageIds, d \in Dates, t \in Times :
        ActiveCount(g, d, t) <= MAX_SLOT_CAPACITY

\* A full slot that also holds a completed booking: the capacity was used,
\* freed by a completion and used again.
C2_Witness ==
    \E d \in Dates, t \in Times :
        /\ ActiveCount(get_default_garage, d, t) = MAX_SLOT_CAPACITY
        /\ \E b \in DOMAIN bookings :
              /\ bookings[b].service_date = d /\ bookings[b].service_time = t
              /\ bookings[b].status = "COMPLETED"

UpdateStatusStep(b, s) ==
    /\ update_booking_status(b, s)
    /\ last' = Result("update_booking_status", b, update_booking_status_result(b, s))

\* C3: update_booking_status on an existing booking succeeds and sets the
\* requested status exactly when ALLOWED_TRANSITIONS allows it from the
\* current status; every other request ends with INVALID_STATUS.
C3_UpdateIffAllowed ==
    [][\A b \in Ids(MaxBookings), s \in ALLOWED_STATUSES :
        (booking_in_garage(b, get_default_garage) /\ UpdateStatusStep(b, s)) =>
            IF s \in ALLOWED_TRANSITIONS(bookings[b].status)
            THEN last'.result = "OK" /\ bookings'[b].status = s
            ELSE last'.result = "INVALID_STATUS" /\ bookings' = bookings]_vars

\* An allowed request for CANCELLED or COMPLETED raised before db.commit().
C3_Witness ==
    /\ last.op = "update_booking_status"
    /\ last.result = "TypeError"

\* C4: a request whose target status is not allowed from the current one
\* ends with INVALID_STATUS, and a request that ends so leaves bookings,
\* customers (health_score), vehicles (next_service_due_date) and job cards
\* as they were, so repeating it meets the same state and the same answer.
C4_InvalidTransitionNoChange ==
    [][last'.op = "update_booking_status" =>
        /\ \/ last'.result = "INVALID_STATUS" /\ UNCHANGED tables
           \/ \A b \in Ids(MaxBookings), s \in ALLOWED_STATUSES :
                ~(/\ booking_in_garage(b, get_default_garage)
                  /\ s \notin ALLOWED_TRANSITIONS(bookings[b].status)
                  /\ UpdateStatusStep(b, s))
        /\ last'.result = "INVALID_STATUS" => UNCHANGED tables]_vars

C4_Witness ==
    /\ last.op = "update_booking_status"
    /\ last.result = "INVALID_STATUS"
    /\ \E b \in DOMAIN bookings : bookings[b].status = "IN_PROGRESS"

\* C5: once a booking is COMPLETED or CANCELLED no operation changes its
\* status again.
C5_TerminalStatuses ==
    [][\A b \in DOMAIN bookings :
        bookings[b].status \in {"COMPLETED", "CANCELLED"} =>
            bookings'[b].status = bookings[b].status]_vars

\* Every booking is COMPLETED and a reschedule has just been refused.
C5_Witness ==
    /\ bookings # <<>>
    /\ \A b \in DOMAIN bookings : bookings[b].status = "COMPLETED"
    /\ last.op = "reschedule_booking"
    /\ last.result = "INVALID_STATUS"

RescheduleStep(b, d, t) ==
    /\ reschedule_booking(b, d, t)
    /\ last' = Result("reschedule_booking", b, reschedule_booking_result(b, d, t))

\* C6: reschedule is accepted only from PENDING or CONFIRMED into a slot
\* without conflict; then the booking has the new date and time, status
\* PENDING and empty reminder and delivery fields, and nothing else
\* changes; a refused reschedule leaves the bookings unchanged.
C6_Reschedule ==
    [][\A b \in Ids(MaxBookings), d \in Dates, t \in Times :
        (/\ last'.op = "reschedule_booking"
         /\ booking_in_garage(b, get_default_garage)
         /\ RescheduleStep(b, d, t)) =>
            IF /\ bookings[b].status \in {"PENDING", "CONFIRMED"}
               /\ ActiveCount(get_default_garage, d, t) < MAX_SLOT_CAPACITY
            THEN /\ last'.result = "OK"
                 /\ bookings'[b].service_date = d
                 /\ bookings'[b].service_time = t
                 /\ bookings'[b].status = "PENDING"
                 /\ Cleared(bookings'[b])
                 /\ bookings'[b].vehicle_id = bookings[b].vehicle_id
                 /\ bookings'[b].service_type = bookings[b].service_type
                 /\ \A o \in DOMAIN bookings \ {b} : bookings'[o] = bookings[o]
            ELSE /\ last'.result = IF bookings[b].status \in {"PENDING", "CONFIRMED"}
                                   THEN "SLOT_CONFLICT" ELSE "INVALID_STATUS"
                 /\ bookings' = bookings]_vars

\* A booking whose reminder was sent and reported delivered has just been
\* rescheduled.
C6_Witness ==
    /\ last.op = "reschedule_booking"
    /\ last.result = "OK"
    /\ Len(bookings) = 1
    /\ sid_seq = 1
    /\ bookings[1].status = "PENDING"
    /\ bookings[1].reminder_message_sid = NULL

CancelStep(b) ==
    /\ cancel_booking(b)
    /\ last' = Result("cancel_booking", b, cancel_booking_result(b))

\* C7: cancel is accepted from PENDING or CONFIRMED and leaves the booking
\* CANCELLED with empty reminder and delivery fields; from any other status
\* it ends with INVALID_STATUS and leaves the booking unchanged.
C7_Cancel ==
    [][\A b \in Ids(MaxBookings) :
        (booking_in_garage(b, get_default_garage) /\ CancelStep(b)) =>
            IF bookings[b].status \in {"PENDING", "CONFIRMED"}
            THEN /\ last'.result = "OK"
                 /\ bookings'[b].status = "CANCELLED"
                 /\ Cleared(bookings'[b])
            ELSE last'.result = "INVALID_STATUS" /\ bookings' = bookings]_vars

\* The call raised before db.commit() and the booking is as it was.
C7_Witness ==
    /\ last.op = "cancel_booking"
    /\ last.result = "TypeError"
    /\ \E b \in DOMAIN bookings : bookings[b].status \in {"PENDING", "CONFIRMED"}

CreateJobCardStep(g, b, tech) ==
    /\ create_job_card(g, b, tech)
    /\ last' = Result("create_job_card", Len(job_cards) + 1,
                      create_job_card_result(g, b, tech))

\* C8: create_job_card succeeds only for a booking of the garage that is
\* neither CANCELLED nor COMPLETED and has no job card; then one IN_PROGRESS
\* job card is added for it and the booking is IN_PROGRESS; each refusal
\* adds no job card and leaves the bookings unchanged.
C8_CreateJobCard ==
    [][\A g \in GarageIds, b \in Ids(MaxBookings), tech \in TechNames :
        (last'.op = "create_job_card" /\ CreateJobCardStep(g, b, tech)) =>
            IF /\ b \in DOMAIN bookings
               /\ bookings[b].garage_id = g
               /\ bookings[b].status \in {"PENDING", "CONFIRMED", "IN_PROGRESS"}
               /\ ~\E j \in DOMAIN job_cards : job_cards[j].booking_id = b
            THEN /\ last'.result = "OK"
                 /\ Len(job_cards') = Len(job_cards) + 1
                 /\ job_cards'[Len(job_cards')].booking_id = b
                 /\ job_cards'[Len(job_cards')].status = "IN_PROGRESS"
                 /\ bookings'[b].status = "IN_PROGRESS"
            ELSE /\ last'.result # "OK"
                 /\ job_cards' = job_cards
                 /\ bookings' = bookings]_vars

\* A job card has just been created, and a booking that was not started
\* through update_booking_status is IN_PROGRESS with it.
C8_Witness ==
    /\ last.op = "create_job_card"
    /\ last.result = "OK"
    /\ job_cards[last.id].status = "IN_PROGRESS"
    /\ bookings[job_cards[last.id].booking_id].status = "IN_PROGRESS"

\* C9: every booking has at most one job card, also when create_job_card
\* calls for the same booking overlap.
C9_OneJobCardPerBooking ==
    \A b \in DOMAIN bookings :
        Cardinality({j \in DOMAIN job_cards : job_cards[j].booking_id = b}) <= 1

\* Two overlapping calls passed the checks; the second commit was refused.
C9_Witness ==
    /\ last.op = "create_job_card"
    /\ last.result = "IntegrityError"

CompleteJobCardStep(g, j, now) ==
    /\ complete_job_card(g, j, now)
    /\ last' = Result("complete_job_card", j, complete_job_card_result(g, j))

\* C10: completing an IN_PROGRESS job card sets it COMPLETED with a
\* completion timestamp and sets its booking COMPLETED; completing a
\* COMPLETED job card fails and changes no table.
C10_CompleteJobCard ==
    [][\A g \in GarageIds, j \in Ids(MaxBookings), now \in Stamps :
        (/\ last'.op = "complete_job_card"
         /\ job_in_garage(j, g)
         /\ CompleteJobCardStep(g, j, now)) =>
            IF job_cards[j].status = "IN_PROGRESS"
            THEN /\ last'.result = "OK"
                 /\ job_cards'[j].status = "COMPLETED"
                 /\ job_cards'[j].completed_at = now
                 /\ job_cards'[j].completed_at # NULL
                 /\ bookings'[job_cards[j].booking_id].status = "COMPLETED"
            ELSE /\ last'.result = "Job card already completed."
                 /\ UNCHANGED tables]_vars

C10_Witness ==
    /\ last.op = "complete_job_card"
    /\ last.result = "Job card already completed."

ToolUpdateStatusStep(T, b, s) ==
    /\ tool_update_booking_status(T, b, s)
    /\ last' = Result("update_booking_status", b, tool_update_booking_status_result(T, b, s))

ToolRescheduleStep(T, b, d, t) ==
    /\ tool_reschedule_booking(T, b, d, t)
    /\ last' = Result("reschedule_booking", b, tool_reschedule_booking_result(T, b, d, t))

ToolCancelStep(T, b) ==
    /\ tool_cancel_booking(T, b)
    /\ last' = Result("cancel_booking", b, tool_cancel_booking_result(T, b))

\* C11: a ledger operation invoked for tenant T on an id that T does not
\* own (absent, or owned by another tenant) is answered not-found and
\* changes no table; this for updateStatus, reschedule, cancel and the
\* job-card operations, and getByBooking returns only a job card of T.
C11_TenantIsolation ==
    [][/\ \A T \in GarageIds, b \in Ids(MaxBookings) :
            ~booking_in_garage(b, T) =>
                /\ \A s \in ALLOWED_STATUSES : ToolUpdateStatusStep(T, b, s) =>
                        (last'.result = "BOOKING_NOT_FOUND" /\ UNCHANGED tables)
                /\ \A d \in Dates, t \in Times : ToolRescheduleStep(T, b, d, t) =>
                        (last'.result = "BOOKING_NOT_FOUND" /\ UNCHANGED tables)
                /\ ToolCancelStep(T, b) =>
                        (last'.result = "BOOKING_NOT_FOUND" /\ UNCHANGED tables)
                /\ \A tech \in TechNames : CreateJobCardStep(T, b, tech) =>
                        (last'.result = "Booking not found." /\ UNCHANGED tables)
       /\ \A T \in GarageIds, j \in Ids(MaxBookings) :
            ~job_in_garage(j, T) =>
                \A now \in Stamps : CompleteJobCardStep(T, j, now) =>
                    (last'.result = "Job card not found." /\ UNCHANGED tables)]_vars

\* A request made for a garage has been answered with the TypeError of the
\* call instead of a ledger answer.
C11_Witness ==
    /\ last.op \in {"update_booking_status", "reschedule_booking", "cancel_booking"}
    /\ last.result = "TypeError"
    /\ job_cards # <<>>

\* The score the counted history of customer cid gives in the current state.
ScoreOfHistory(cid) ==
    LET mine == {b \in DOMAIN bookings :
                    vehicles[bookings[b].vehicle_id].customer_id = cid}
        completed == {b \in mine : bookings[b].status = "COMPLETED"}
        cancelled == {b \in mine : bookings[b].status = "CANCELLED"}
        cards == {j \in DOMAIN job_cards :
                    job_cards[j].booking_id \in mine /\ job_cards[j].status = "COMPLETED"}
    IN  10 * Cardinality(completed) - 20 * Cardinality(cancelled) + 5 * Cardinality(cards)

CustomerOfBooking(b) == vehicles[bookings[b].vehicle_id].customer_id

\* C12: right after a successful operation that completes or cancels a
\* booking or completes a job card, the stored health_score of the affected
\* customer equals 10 x COMPLETED bookings - 20 x CANCELLED bookings
\* + 5 x COMPLETED job cards, counted in the state the operation leaves.
C12_HealthScoreCurrent ==
    /\ (last.op = "complete_job_card" /\ last.result = "OK") =>
            LET cid == CustomerOfBooking(job_cards[last.id].booking_id)
            IN  customers[cid].health_score = ScoreOfHistory(cid)
    /\ (/\ last.op \in {"update_booking_status", "cancel_booking"}
        /\ last.result = "OK"
        /\ bookings[last.id].status \in {"COMPLETED", "CANCELLED"}) =>
            LET cid == CustomerOfBooking(last.id)
            IN  customers[cid].health_score = ScoreOfHistory(cid)

\* A job card has just been completed and the stored score is the one of
\* the history before it.
C12_Witness ==
    /\ last.op = "complete_job_card"
    /\ last.result = "OK"
    /\ LET cid == CustomerOfBooking(job_cards[last.id].booking_id)
       IN  /\ ScoreOfHistory(cid) = 15
           /\ customers[cid].health_score = 0

\* The interval the claim gives a service type (type names compared without
\* regard to case and surrounding blanks).
IntervalOfType(ty) ==
    CASE ty \in {"oil_change", "Oil_Change "} -> 90
      [] ty = "general_service" -> 180
      [] ty = "full_service" -> 365
      [] OTHER -> 120

\* C13: in a step in which a booking becomes COMPLETED its vehicle's
\* next_service_due_date becomes the booking's service_date plus the
\* interval of its service_type; a step in which no booking becomes
\* COMPLETED changes no vehicle's next_service_due_date.
C13_NextServiceDue ==
    [][LET done == {b \in DOMAIN bookings :
                        /\ bookings[b].status # "COMPLETED"
                        /\ bookings'[b].status = "COMPLETED"}
       IN  /\ \A b \in done :
                vehicles'[bookings[b].vehicle_id].next_service_due_date =
                    bookings[b].service_date + IntervalOfType(bookings[b].service_type)
           /\ done = {} =>
                \A v \in DOMAIN vehicles :
                    vehicles'[v].next_service_due_date = vehicles[v].next_service_due_date]_vars

\* Bookings of a listed type, of a type written in another case and of an
\* unlisted type have been completed; the vehicle carries the date of one.
C13_Witness ==
    /\ \E b \in DOMAIN bookings :
            /\ bookings[b].status = "COMPLETED"
            /\ bookings[b].service_type = "repair"
            /\ vehicles[bookings[b].vehicle_id].next_service_due_date =
                    bookings[b].service_date + 120
    /\ \E b \in DOMAIN bookings :
            /\ bookings[b].status = "COMPLETED"
            /\ bookings[b].service_type \in {"full_service", "Oil_Change "}

RuleStep(phone, message) == receive_webhook("rule", phone, message)

StageOf(phone) == conversation_store[phone].state

\* C14: from a fresh context "oil change" leads to waiting_for_date and
\* "tomorrow" to waiting_for_time, each with a question and no booking
\* request; "10am" then clears the context and emits one booking request
\* for oil_change, the day after today, 10:00.
C14_ThreeMessages ==
    [][\A p \in ChatPhones :
        /\ (conversation_store[p] = NoConversation /\ RuleStep(p, "oil change")) =>
                /\ StageOf(p)' = "waiting_for_date"
                /\ conversation_store'[p].data.service_type = "oil_change"
                /\ conversation_store'[p].data.service_date = NONE
                /\ last'.reply = "Thanks. Please share your preferred service date."
                /\ ~last'.request.emitted
                /\ bookings' = bookings
        /\ (/\ StageOf(p) = "waiting_for_date"
            /\ conversation_store[p].data.service_type = "oil_change"
            /\ RuleStep(p, "tomorrow")) =>
                /\ StageOf(p)' = "waiting_for_time"
                /\ conversation_store'[p].data.service_type = "oil_change"
                /\ conversation_store'[p].data.service_date = "tomorrow"
                /\ last'.reply = "Got it. What time would you prefer?"
                /\ ~last'.request.emitted
                /\ bookings' = bookings
        /\ (/\ StageOf(p) = "waiting_for_time"
            /\ conversation_store[p].data.service_type = "oil_change"
            /\ conversation_store[p].data.service_date = "tomorrow"
            /\ RuleStep(p, "10am")) =>
                /\ conversation_store'[p] = NoConversation
                /\ last'.request = [emitted |-> TRUE, service_type |-> "oil_change",
                                    service_date |-> Today + 1, service_time |-> 10]
                /\ Len(bookings') <= Len(bookings) + 1
                /\ last'.id # NULL =>
                        /\ Len(bookings') = Len(bookings) + 1
                        /\ bookings'[last'.id].service_type = "oil_change"
                        /\ bookings'[last'.id].service_date = Today + 1
                        /\ bookings'[last'.id].service_time = 10]_vars

\* The third message has just been answered with the first booking.
C14_Witness ==
    /\ last.op = "receive_webhook"
    /\ last.branch = "finalize"
    /\ last.id = 1
    /\ Len(bookings) = 1
    /\ bookings[1].service_type = "oil_change"
    /\ bookings[1].service_date = Today + 1
    /\ bookings[1].service_time = 10
    /\ conversation_store["+111"] = NoConversation

\* C15 as stated: at waiting_for_date the reply "abc" leaves the stage at
\* waiting_for_date.
C15_MalformedDateStays ==
    [][\A p \in ChatPhones :
        (StageOf(p) = "waiting_for_date" /\ RuleStep(p, "abc")) =>
            StageOf(p)' = "waiting_for_date"]_vars

\* C15 amended: at waiting_for_date every reply, "abc" included, is stored
\* unparsed as the date and the stage advances to waiting_for_time with the
\* question for a time; the stored "abc" is refused when the next reply
\* arrives: the stage goes back to waiting_for_date with the corrective
\* question, and neither message emits a booking request.
C15_MalformedDateDeferred ==
    [][\A p \in ChatPhones : \A m \in Messages :
        /\ (StageOf(p) = "waiting_for_date" /\ RuleStep(p, m)) =>
                /\ StageOf(p)' = "waiting_for_time"
                /\ conversation_store'[p].data.service_date = m
                /\ last'.reply = "Got it. What time would you prefer?"
                /\ ~last'.request.emitted
                /\ bookings' = bookings
        /\ (/\ StageOf(p) = "waiting_for_time"
            /\ conversation_store[p].data.service_date = "abc"
            /\ RuleStep(p, m)) =>
                /\ StageOf(p)' = "waiting_for_date"
                /\ last'.reply =
                        "I could not understand the date. Please send like 24/02 or today."
                /\ ~last'.request.emitted
                /\ bookings' = bookings]_vars

\* "abc" was stored as the date and has just been refused with the time reply.
C15_Witness ==
    /\ last.op = "receive_webhook"
    /\ last.branch = "bad_date"
    /\ StageOf("+111") = "waiting_for_date"
    /\ conversation_store["+111"].data.service_date = "abc"
    /\ conversation_store["+111"].data.service_time = "10am"

\* The replies the date formats and the time formats read.
ReadableDates == {"today", "tomorrow"}

ReadableTimes == {"noon", "10am"}

\* C16: at waiting_for_time a stored date that does not parse sends the
\* stage to waiting_for_date; a date that parses with a time that does not
\* keeps waiting_for_time; both answer with a corrective question carrying
\* an example and emit no booking request; when both parse the context is
\* cleared and one booking request with the stored service type, the parsed
\* date and the parsed time is emitted.
C16_TimeStage ==
    [][\A p \in ChatPhones : \A m \in Messages :
        (StageOf(p) = "waiting_for_time" /\ RuleStep(p, m)) =>
            LET data == conversation_store[p].data
            IN  /\ data.service_date \notin ReadableDates =>
                    /\ StageOf(p)' = "waiting_for_date"
                    /\ last'.reply =
                          "I could not understand the date. Please send like 24/02 or today."
                    /\ ~last'.request.emitted
                    /\ bookings' = bookings
                /\ (data.service_date \in ReadableDates /\ m \notin ReadableTimes) =>
                    /\ StageOf(p)' = "waiting_for_time"
                    /\ last'.reply =
                          "I could not understand the time. Please send like 10:30 AM."
                    /\ ~last'.request.emitted
                    /\ bookings' = bookings
                /\ (data.service_date \in ReadableDates /\ m \in ReadableTimes) =>
                    /\ conversation_store'[p] = NoConversation
                    /\ last'.request =
                          [emitted |-> TRUE,
                           service_type |-> data.service_type,
                           service_date |-> IF data.service_date = "today"
                                            THEN Today ELSE Today + 1,
                           service_time |-> IF m = "noon" THEN 12 ELSE 10]
                    /\ Len(bookings') <= Len(bookings) + 1]_vars

\* A time that does not parse has just been refused while the date is kept.
C16_Witness ==
    /\ last.op = "receive_webhook"
    /\ last.branch = "bad_time"
    /\ StageOf("+111") = "waiting_for_time"
    /\ conversation_store["+111"].data.service_date = "tomorrow"
    /\ conversation_store["+111"].data.service_time = "abc"
    /\ Len(bookings) = 1

\* The stages the handler itself writes.
KnownStages == {NONE, "waiting_for_date", "waiting_for_time"}

C18_AlwaysOneReply ==
    last.op = "receive_webhook" =>
        /\ last.result = "reply"
        /\ last.reply # ""

\* The slot of the finalized request was full: create_booking raised and the
\* request ended without a reply, the context already cleared.
C18_Witness ==
    /\ last.op = "receive_webhook"
    /\ last.branch = "finalize"
    /\ last.request.emitted
    /\ last.result = "DomainException"
    /\ Cardinality(ActiveAt(get_default_garage, Today + 1, 10)) = MAX_SLOT_CAPACITY
    /\ conversation_store["+111"] = NoConversation

DeclaredType(tool_name, key) ==
    CASE tool_name \in {"reschedule_booking", "cancel_booking", "create_jobcard"}
            /\ key = "booking_id" -> "int"
      [] tool_name = "reschedule_booking" /\ key = "new_date" -> "date"
      [] OTHER -> NONE

\* process has just handled a call of a registered tool whose raw arguments
\* are a dict or the JSON text of one.
RegisteredCall ==
    /\ last.op = "process"
    /\ last.completion.kind = "tool_call"
    /\ last.completion.name \in registered_tools
    /\ last.completion.arguments.form \in {"dict", "json_object"}

\* The keyword arguments process passed to the tool function besides db and
\* garage_id, and the declared keys among the raw arguments.
PassedKeys == DOMAIN last.kwargs \ {"db", "garage_id"}

DeclaredKeys ==
    {key \in DOMAIN last.completion.arguments.args :
        DeclaredType(last.completion.name, key) # NONE}

C21_ResponseContract ==
    last.op = "process" =>
        /\ last.result = "returned"
        /\ DOMAIN last.response =
                {"engine", "type", "reply", "tool", "arguments", "result"}
        /\ last.response.type \in {"conversation", "tool_call"}
        /\ last.response.reply \notin {"", NONE}
        /\ last.response.type = "conversation" =>
                /\ last.response.tool = NONE
                /\ last.response.arguments = NoArguments

\* The provider answered with empty text and the response carries the
\* default reply.
C21_Witness ==
    /\ last.op = "process"
    /\ last.completion.kind = "text"
    /\ last.completion.text = ""
    /\ last.response.type = "conversation"
    /\ last.response.reply = "Request processed."
    /\ last.response.tool = NONE

\* process has just handled a request on which the provider failed: no
\* client, the call raising, a completion without choices, a tool call
\* without a name, or tool arguments that are not a JSON object.
ProviderFailed ==
    /\ last.op = "process"
    /\ \/ last.completion.kind \in {"client_unavailable", "api_error", "malformed"}
       \/ /\ last.completion.kind = "tool_call"
          /\ \/ last.completion.name = NONE
             \/ /\ last.completion.name \in registered_tools
                /\ last.completion.arguments.form \in {"bad_json", "json_list"}

\* C22: on every failure of the provider process raises nothing and returns
\* what the rule strategy gives for the message.
C22_FallbackReturnsRuleResult ==
    ProviderFailed =>
        /\ last.result = "returned"
        /\ last.response =
                normalize_rule_response(rule_engine_process(last.completion.message))

\* The provider call raised and process answered with the failure reply of
\* the fallback instead of a rule result.
C22_Witness ==
    /\ last.op = "process"
    /\ last.completion.kind = "api_error"
    /\ last.result = "returned"
    /\ last.response.engine = "rule"
    /\ last.response.reply = tool_execution_failure_reply

\* C29: when the request ends in the rule strategy, a message with
\* "summary" resolves to a tool call of get_daily_summary and a message
\* with "cancel" to a tool call of cancel_booking with the first integer of
\* the message as booking id.
C29_KeywordResolution ==
    ProviderFailed =>
        LET rule == rule_engine_process(last.completion.message)
        IN  /\ last.completion.message = "daily summary" =>
                    /\ dict_get(rule, "tool", NONE) = "get_daily_summary"
                    /\ last.response.type = "tool_call"
                    /\ last.response.tool = "get_daily_summary"
            /\ last.completion.message = "cancel booking 7" =>
                    /\ dict_get(rule, "tool", NONE) = "cancel_booking"
                    /\ last.response.type = "tool_call"
                    /\ last.response.tool = "cancel_booking"
                    /\ last.response.arguments =
                            [present |-> TRUE, value |-> [booking_id |-> Val("int", "7")]]

\* "cancel booking 7" ended in the rule strategy and came back as a
\* conversation response without a tool.
C29_Witness ==
    /\ last.op = "process"
    /\ last.completion.kind = "client_unavailable"
    /\ last.completion.message = "cancel booking 7"
    /\ last.response.engine = "rule"
    /\ last.response.type = "conversation"
    /\ last.response.tool = NONE

\* The fixed texts a failure may be answered with.
GenericReplies == {"Request processed.", tool_execution_failure_reply}

\* C23: when the engine's process raises while a message is handled, the
\* reply delivered to the customer is one of the fixed generic texts and
\* carries nothing of the exception.
C23_NoErrorTextInReply ==
    (last.op = "receive_webhook" /\ last.branch = "llm_conversation") =>
        last.reply \in GenericReplies

\* With the LLM engine selected, process raised and the customer was
\* answered with the text of the exception.
C23_Witness ==
    /\ last.op = "receive_webhook"
    /\ last.branch = "llm_conversation"
    /\ last.result = "reply"
    /\ last.reply = "Request processed. (AI error: TypeError)"
    /\ conversation_store["+111"] = NoConversation


\* The bookings a sequence of attempts visited.
Visited(attempts) == {attempts[i] : i \in DOMAIN attempts}

Eligible(row, g, today) ==
    /\ row.garage_id = g
    /\ row.service_date = today
    /\ row.status = "CONFIRMED"
    /\ row.reminder_sent = FALSE

\* The three reminder columns of a booking row.
ReminderColumns(row) ==
    <<row.reminder_sent, row.reminder_sent_at, row.reminder_message_sid>>

C27_FailedIsRetriedByNextSweep ==
    [][LET before == procs[Scheduler]
           after == procs'[Scheduler]
       IN  (/\ before.pc = "idle"
            /\ after.pc = "sweep"
            /\ after.garage_id = before.garage_id) =>
               \A b \in before.failed :
                   Eligible(bookings[b], before.garage_id, before.d) =>
                       b \in after.selected]_vars

\* A sweep has ended with a failed booking that is unchanged since, and
\* the scheduler can start the next one.
C27_Witness ==
    LET job == procs[Scheduler]
    IN  /\ job.pc = "idle"
        /\ \E b \in job.failed :
              /\ Eligible(bookings[b], job.garage_id, job.d)
              /\ customer_phone(b) # ""
        /\ ENABLED SelectReminders


\* C30: when the sweep records a reminder on a booking, the row it writes
\* to is at that moment CONFIRMED for the day of the sweep with no reminder
\* sent.
C30_WriteOnlyOnEligible ==
    [][LET before == procs[Scheduler]
           after == procs'[Scheduler]
       IN  \A b \in DOMAIN bookings :
               (b \in after.sent /\ b \notin before.sent) =>
                   Eligible(bookings[b], before.garage_id, before.d)]_vars

\* A booking the sweep selected was rescheduled to another day before its
\* turn, and the sweep then recorded a reminder on it.
C30_Witness ==
    LET job == procs[Scheduler]
    IN  /\ job.pc = "sweep"
        /\ \E b \in job.sent :
              /\ bookings[b].reminder_sent
              /\ bookings[b].status = "PENDING"
              /\ bookings[b].service_date # job.d


CreateBookingStep(r, d, t) ==
    /\ create_booking(r[1], r[2], d, t)
    /\ last' = Result("create_booking", Len(bookings) + 1,
                      create_booking_result(r[1], r[2], d, t))

\* The slot of booking b is full and b is one of its active bookings.
InFullSlot(b) ==
    /\ b \in DOMAIN bookings
    /\ bookings[b].status \in ACTIVE_STATUSES
    /\ ActiveCount(bookings[b].garage_id, bookings[b].service_date,
                   bookings[b].service_time) >= MAX_SLOT_CAPACITY

\* There is room again in the slot booking b held before the step.
SlotFreed(b) ==
    Cardinality({c \in DOMAIN bookings' :
                    /\ bookings'[c].garage_id = bookings[b].garage_id
                    /\ bookings'[c].service_date = bookings[b].service_date
                    /\ bookings'[c].service_time = bookings[b].service_time
                    /\ bookings'[c].status \in ACTIVE_STATUSES})
        < MAX_SLOT_CAPACITY

\* C28: create_booking ends with SLOT_CONFLICT exactly when the slot holds
\* MAX_SLOT_CAPACITY or more PENDING, CONFIRMED or IN_PROGRESS bookings of
\* the tenant, and then adds no customer, vehicle or booking; otherwise it
\* adds one PENDING booking; cancelling or completing a booking of a full
\* slot leaves room for the next create_booking at that slot.
C28_SlotConflictIffFull ==
    [][/\ \A r \in Requests, d \in Dates, t \in Times :
            CreateBookingStep(r, d, t) =>
                IF ActiveCount(get_default_garage, d, t) >= MAX_SLOT_CAPACITY
                THEN /\ last'.result = "SLOT_CONFLICT"
                     /\ bookings' = bookings
                     /\ vehicles' = vehicles
                     /\ customers' = customers
                ELSE /\ last'.result = "OK"
                     /\ Len(bookings') = Len(bookings) + 1
                     /\ bookings'[Len(bookings')].status = "PENDING"
       /\ \A b \in Ids(MaxBookings) :
            (InFullSlot(b) /\ CancelStep(b)) => SlotFreed(b)
       /\ \A g \in GarageIds, j \in Ids(MaxBookings), now \in Stamps :
            (/\ j \in DOMAIN job_cards
             /\ InFullSlot(job_cards[j].booking_id)
             /\ CompleteJobCardStep(g, j, now)
             /\ last'.result = "OK") => SlotFreed(job_cards[j].booking_id)]_vars

\* A cancel request for a booking of a full slot has been answered and the
\* slot is still full.
C28_Witness ==
    /\ last.op = "cancel_booking"
    /\ \E d \in Dates, t \in Times :
          ActiveCount(get_default_garage, d, t) >= MAX_SLOT_CAPACITY


\* The tables after create_booking for the request, or unchanged when the
\* message finalizes nothing.
SerialTables(phone, message) ==
    LET req == booking_request("rule", phone, message)
    IN  IF req.emitted /\ ~check_slot_conflict(req.service_date, req.service_time)
        THEN /\ Len(bookings') = Len(bookings) + 1
             /\ bookings'[Len(bookings')].service_type = req.service_type
             /\ bookings'[Len(bookings')].service_date = req.service_date
             /\ bookings'[Len(bookings')].service_time = req.service_time
             /\ \A b \in DOMAIN bookings : bookings'[b] = bookings[b]
        ELSE bookings' = bookings

HoldersOf(sid) == {b \in DOMAIN bookings : bookings[b].reminder_message_sid = sid}

\* C32: no two bookings hold the same message id, and a delivery report
\* for an id changes at most the one booking that holds it: its
\* delivery_status becomes the reported status and its delivered_at the
\* time of the report when the status is "delivered"; no other booking and
\* no other column changes.
C32_OneBookingPerMessageId ==
    [][/\ \A sid \in 1..MaxBookings : Cardinality(HoldersOf(sid)') <= 1
       /\ \A sid \in 1..MaxBookings, st \in DeliveryStatuses, now \in ReportStamps :
            (/\ twilio_status_callback(sid, st, now)
             /\ last'.op = "twilio_status_callback"
             /\ last'.id = sid /\ last'.status = st /\ last'.now = now) =>
                \A b \in DOMAIN bookings :
                    IF b \in HoldersOf(sid)
                    THEN bookings'[b] =
                            [bookings[b] EXCEPT
                                !.delivery_status = st,
                                !.delivered_at = IF st = "delivered" THEN now ELSE @]
                    ELSE bookings'[b] = bookings[b]]_vars

\* Two bookings hold different message ids; a report reached one of them
\* and the other has none.
C32_Witness ==
    /\ last.op = "twilio_status_callback"
    /\ \E a, b \in DOMAIN bookings :
          /\ bookings[a].reminder_message_sid = last.id
          /\ bookings[a].delivery_status = "delivered"
          /\ bookings[a].delivered_at = last.now
          /\ bookings[b].reminder_message_sid \notin {NULL, last.id}
          /\ bookings[b].delivery_status = NONE

\* The value column f of job card k has after update_job_card(g, j, u).
UpdatedColumn(k, f, j, u) ==
    IF k = j /\ f = "technician_name" /\ u[1] # NONE THEN u[1]
    ELSE IF k = j /\ f = "work_notes" /\ u[2] # NONE THEN u[2]
    ELSE IF k = j /\ f = "total_cost" /\ u[3] # NULL THEN u[3]
    ELSE job_cards[k][f]

\* C33: update_job_card on a job card of the garage overwrites exactly the
\* columns whose input is not None and leaves every other job-card column,
\* the status, completed_at, every other job card and all bookings
\* unchanged; for an unknown or foreign id it answers "Job card not found."
\* and changes nothing.
C33_PartialUpdate ==
    [][last'.op = "update_job_card" =>
        LET g == last'.garage_id
            j == last'.job
            u == last'.input
        IN  /\ UNCHANGED <<customers, vehicles, bookings>>
            /\ DOMAIN job_cards' = DOMAIN job_cards
            /\ IF j \in DOMAIN job_cards /\ job_cards[j].garage_id = g
               THEN /\ last'.result = "OK"
                    /\ \A k \in DOMAIN job_cards :
                            \A f \in DOMAIN job_cards[k] :
                                job_cards'[k][f] = UpdatedColumn(k, f, j, u)
               ELSE /\ last'.result = "Job card not found."
                    /\ UNCHANGED job_cards]_vars

\* An update with an empty technician name and no cost reached a completed
\* job card that had a cost: the name is now empty, the cost and the
\* completion are kept.
C33_Witness ==
    /\ last.op = "update_job_card" /\ last.result = "OK"
    /\ last.input = <<"", NONE, NULL>>
    /\ job_cards[last.job].technician_name = ""
    /\ job_cards[last.job].work_notes = "done"
    /\ job_cards[last.job].total_cost = 40
    /\ job_cards[last.job].status = "COMPLETED"

\* C34: with bookings created, confirmed and rescheduled, reminders sent
\* and delivery reports applied one after the other, every PENDING booking
\* has reminder_sent false and no reminder_sent_at, reminder_message_sid,
\* delivery_status or delivered_at.
C34_PendingIsClean ==
    \A b \in DOMAIN bookings :
        bookings[b].status = "PENDING" => Cleared(bookings[b])

\* A reminder was sent, its booking was rescheduled, and the delivery
\* report for the message arrived: no booking holds the id any more and
\* the bookings are PENDING.
C34_Witness ==
    /\ last.op = "twilio_status_callback"
    /\ last.status = "delivered"
    /\ last.id <= sid_seq
    /\ HoldersOf(last.id) = {}
    /\ Len(bookings) = MaxBookings
    /\ \A b \in DOMAIN bookings : bookings[b].status = "PENDING"

\* C35: every CANCELLED booking has reminder_sent false and empty reminder
\* and delivery columns, and both ways of cancelling a PENDING or CONFIRMED
\* booking, cancel_booking and update_booking_status to CANCELLED, leave it
\* so, also when its reminder had been sent.
C35_CancelledIsClean ==
    [][/\ \A b \in DOMAIN bookings' :
            bookings'[b].status = "CANCELLED" => Cleared(bookings'[b])
       /\ \A b \in Ids(MaxBookings) :
            (/\ booking_in_garage(b, get_default_garage)
             /\ bookings[b].status \in {"PENDING", "CONFIRMED"}
             /\ (CancelStep(b) \/ UpdateStatusStep(b, "CANCELLED"))) =>
                /\ bookings'[b].status = "CANCELLED"
                /\ Cleared(bookings'[b])]_vars

\* update_booking_status to CANCELLED was requested for a CONFIRMED booking
\* whose reminder had been sent; the call raised and the booking is as it
\* was.
C35_Witness ==
    /\ last.op = "update_booking_status"
    /\ last.result = "TypeError"
    /\ \A b \in DOMAIN bookings :
          bookings[b].status = "CONFIRMED" /\ bookings[b].reminder_sent

\* C36: in every reachable state the booking of a job card is IN_PROGRESS
\* or COMPLETED, and the booking of a COMPLETED job card is COMPLETED.
C36_JobCardMeansStarted ==
    \A j \in DOMAIN job_cards :
        LET row == bookings[job_cards[j].booking_id]
        IN  /\ row.status \in {"IN_PROGRESS", "COMPLETED"}
            /\ job_cards[j].status = "COMPLETED" => row.status = "COMPLETED"

\* A booking that has a job card is CONFIRMED, or was rescheduled and is
\* PENDING on another day.
C36_Witness ==
    \E j \in DOMAIN job_cards :
        LET row == bookings[job_cards[j].booking_id]
        IN  /\ row.status = "PENDING"
            /\ row.service_date # Today

\* C37: a delivery report for the message id a booking held before it was
\* rescheduled or cancelled finds no booking and changes no table.
C37_StaleReportChangesNothing ==
    [][(/\ last.op \in {"reschedule_booking", "cancel_booking"}
        /\ last.released # NULL
        /\ last'.op = "twilio_status_callback"
        /\ last'.id = last.released) => UNCHANGED tables]_vars

\* A cancel request for a reminded booking was answered with the error of
\* the call and the booking still holds its message id.
C37_Witness ==
    /\ last.op = "cancel_booking"
    /\ last.result = "TypeError"
    /\ last.released # NULL
    /\ HoldersOf(last.released) # {}

\* The job cards that were added or whose row changed in the step.
TouchedJobCards ==
    {j \in DOMAIN job_cards' : j \notin DOMAIN job_cards \/ job_cards'[j] # job_cards[j]}

\* C38: handling one message calls at most one tool function, once: of
\* several tool calls in the provider's answer only the first is executed,
\* and a message that is empty after strip() uses no answer of the provider
\* and calls no tool.
C38_AtMostOneTool ==
    [][\A message \in InboundMessages, answer \in ProviderAnswers :
          (last'.op = "process" /\ last'.completion = completion_for(message, answer)) =>
            /\ Cardinality(TouchedJobCards) <= 1
            /\ last'.called # NONE =>
                    /\ answer.tool_calls # <<>>
                    /\ last'.called = answer.tool_calls[1].name
                    /\ \A key \in DOMAIN answer.tool_calls[1].arguments.args :
                            key \in DOMAIN last'.kwargs =>
                                last'.kwargs[key] = answer.tool_calls[1].arguments.args[key]
            /\ (last'.called = NONE
                    \/ last'.called \notin {"create_jobcard", "complete_jobcard"}) =>
                    UNCHANGED tables
            /\ message \in {"", "  "} =>
                    /\ last'.completion.kind = "empty_message"
                    /\ last'.called = NONE
                    /\ last'.response.reply =
                            "Please provide more details so I can assist you."
                    /\ UNCHANGED tables]_vars

\* The answer held two tool calls, create_jobcard first: the job card was
\* created and not completed.
C38_Witness ==
    /\ last.op = "process"
    /\ last.called = "create_jobcard"
    /\ last.call_result = "JobCard"
    /\ Len(job_cards) = 1
    /\ job_cards[1].status = "IN_PROGRESS"

\* C39: a message that is answered with the failure reply committed no
\* change to a booking or a job card.
C39_FailureReplyMeansNoChange ==
    [][(/\ last'.op = "process"
        /\ last'.response.reply = tool_execution_failure_reply) =>
            UNCHANGED <<bookings, job_cards>>]_vars

\* create_jobcard returned the committed JobCard row and the message was
\* answered with the failure reply.
C39_Witness ==
    /\ last.op = "process"
    /\ last.called = "create_jobcard"
    /\ last.call_result = "JobCard"
    /\ last.response.reply = tool_execution_failure_reply
    /\ \E j \in DOMAIN job_cards : bookings[job_cards[j].booking_id].status = "IN_PROGRESS"

====
